---------------------------- MODULE Spec2Model ----------------------------
(***************************************************************************)
(* Model of the EP-133 K.O. II time-based idea generator                   *)
(* (src/time_based_generator.py) and of its sound compatibility analyzer   *)
(* (src/sound_compatibility.py) over the static sound library              *)
(* (src/ep_koii_skills/midi_interface.py), of the export to the sampler,   *)
(* of the web interface's pattern playback (src/web_interface.py) and of   *)
(* the USB monitor (src/ep_koii_skills/usb_monitor.py).                    *)
(*                                                                         *)
(* Conventions                                                             *)
(*   - a Python float that is written as a decimal literal with two        *)
(*     decimals (a score, a weight, a threshold, a rounded result) is      *)
(*     carried as the integer number of hundredths ("centi"); Float(c)     *)
(*     is the IEEE-754 double that literal denotes;                        *)
(*   - double arithmetic is done exactly as the machine does it            *)
(*     (53-bit significand, round to nearest, ties to even) on naturals    *)
(*     held as sequences of 15-bit limbs, least significant first;         *)
(*   - a Python dict is a function, a list is a sequence, a set is a set;  *)
(*     turning a set of strings into a list uses the interpreter's string  *)
(*     hash, which depends on the process's hash seed;                     *)
(*   - a call that raises yields [raised |-> <the exception>].             *)
(*                                                                         *)
(* Specifications                                                          *)
(*   SpecAnalyze  the analyzer's functions called on bounded lists        *)
(*   Spec         one generator object called again and again             *)
(*   SpecTwoRuns  the same composition generated in several runs          *)
(*   SpecConc     two threads generating at the same time                 *)
(*   SpecSeeds    get_time_seed and get_bar_seed called at various times  *)
(*   SpecExport   a composition generated and exported to the sampler     *)
(*   SpecWeb      play_pattern and stop_pattern requests and the threads  *)
(*   SpecWebFair  the same, every started thread scheduled for ever       *)
(*   SpecUsb      check_connection called while ports come and go         *)
(***************************************************************************)
EXTENDS Integers, Sequences, FiniteSets, TLC

(***************************************************************************)
(* Naturals of arbitrary size: sequences of limbs, least significant       *)
(* first, without leading zero limbs; <<>> is zero.                        *)
(***************************************************************************)
LimbBits == 15
Base == 2^LimbBits

RECURSIVE NFromInt(_)
NFromInt(n) == IF n = 0 THEN <<>> ELSE <<n % Base>> \o NFromInt(n \div Base)

RECURSIVE NToInt(_)
NToInt(a) == IF a = <<>> THEN 0 ELSE a[1] + Base * NToInt(Tail(a))

RECURSIVE NTrim(_)
NTrim(a) ==
    IF a = <<>> THEN a
    ELSE IF a[Len(a)] = 0 THEN NTrim(SubSeq(a, 1, Len(a) - 1)) ELSE a

NLimb(a, i) == IF i <= Len(a) THEN a[i] ELSE 0

RECURSIVE NAddC(_, _, _, _)
NAddC(a, b, i, c) ==
    IF i > Len(a) /\ i > Len(b)
    THEN (IF c = 0 THEN <<>> ELSE <<c>>)
    ELSE LET s == NLimb(a, i) + NLimb(b, i) + c
         IN  <<s % Base>> \o NAddC(a, b, i + 1, s \div Base)

NAdd(a, b) == NAddC(a, b, 1, 0)

RECURSIVE NMulSmallC(_, _, _, _)
NMulSmallC(a, k, i, c) ==
    IF i > Len(a)
    THEN NFromInt(c)
    ELSE LET s == a[i] * k + c
         IN  <<s % Base>> \o NMulSmallC(a, k, i + 1, s \div Base)

\* a * k for 0 <= k < Base
NMulSmall(a, k) == IF k = 0 THEN <<>> ELSE NMulSmallC(a, k, 1, 0)

NShlLimbs(a, n) == IF a = <<>> THEN a ELSE [i \in 1..n |-> 0] \o a

RECURSIVE NMulFrom(_, _, _)
NMulFrom(a, b, i) ==
    IF i > Len(b) THEN <<>>
    ELSE NAdd(NShlLimbs(NMulSmall(a, b[i]), i - 1), NMulFrom(a, b, i + 1))

NMul(a, b) == NMulFrom(a, b, 1)

\* long division by 0 < d <= Base, from the most significant limb down:
\* <<quotient limbs (least significant first), remainder>>
RECURSIVE NDivStep(_, _, _, _, _)
NDivStep(a, d, i, r, q) ==
    IF i = 0 THEN <<q, r>>
    ELSE NDivStep(a, d, i - 1, (r * Base + a[i]) % d,
                  <<(r * Base + a[i]) \div d>> \o q)

NDivMod(a, d) == NDivStep(a, d, Len(a), 0, <<>>)

NShlBits(a, k) == NShlLimbs(NMulSmall(a, 2^(k % LimbBits)), k \div LimbBits)

NDropLimbs(a, n) == IF n >= Len(a) THEN <<>> ELSE SubSeq(a, n + 1, Len(a))

\* floor(a / 2^k)
NShrBits(a, k) ==
    NTrim(NDivMod(NDropLimbs(a, k \div LimbBits), 2^(k % LimbBits))[1])

\* a mod 2^k
NLowBits(a, k) ==
    IF k \div LimbBits >= Len(a) THEN a
    ELSE NTrim(SubSeq(a, 1, k \div LimbBits)
               \o <<a[k \div LimbBits + 1] % (2^(k % LimbBits))>>)

RECURSIVE BitLenInt(_)
BitLenInt(n) == IF n = 0 THEN 0 ELSE 1 + BitLenInt(n \div 2)

NBitLen(a) ==
    IF a = <<>> THEN 0 ELSE LimbBits * (Len(a) - 1) + BitLenInt(a[Len(a)])

RECURSIVE NCmpFrom(_, _, _)
NCmpFrom(a, b, i) ==
    IF i = 0 THEN 0
    ELSE IF a[i] < b[i] THEN 0 - 1
    ELSE IF a[i] > b[i] THEN 1
    ELSE NCmpFrom(a, b, i - 1)

\* -1, 0 or 1 as a < b, a = b or a > b
NCmp(a, b) ==
    IF Len(a) < Len(b) THEN 0 - 1
    ELSE IF Len(a) > Len(b) THEN 1
    ELSE NCmpFrom(a, b, Len(a))

NIsOdd(a) == a # <<>> /\ a[1] % 2 = 1

NOne == <<1>>

(***************************************************************************)
(* IEEE-754 binary64 values >= 0: [m, e] stands for m * 2^e, where m has   *)
(* exactly MantBits bits, or m = <<>> for zero.                            *)
(***************************************************************************)
MantBits == 53

FZero == [m |-> <<>>, e |-> 0]

\* q + 1 or q: q is a value cut by some bits, c compares the bits cut off
\* with half a unit of q (-1, 0, 1), sticky says more was cut off before
RoundUpIf(q, c, sticky) ==
    IF c = 1 \/ (c = 0 /\ (sticky \/ NIsOdd(q))) THEN NAdd(q, NOne) ELSE q

\* K cut by s > 0 bits, rounded to nearest, ties to even
RoundCut(K, s, sticky) ==
    RoundUpIf(NShrBits(K, s), NCmp(NLowBits(K, s), NShlBits(NOne, s - 1)),
              sticky)

\* q * 2^e, where rounding may have carried q to MantBits + 1 bits
Renormalise(q, e) ==
    IF NBitLen(q) > MantBits
    THEN [m |-> NShrBits(q, 1), e |-> e + 1]
    ELSE [m |-> q, e |-> e]

\* the double nearest to K * 2^e (+ a sticky rest), K having L bits
RoundBits(K, e, sticky, L) ==
    IF L = 0 THEN FZero
    ELSE IF L <= MantBits
    THEN [m |-> NShlBits(K, MantBits - L), e |-> e - (MantBits - L)]
    ELSE Renormalise(RoundCut(K, L - MantBits, sticky), e + L - MantBits)

RoundToDouble(K, e, sticky) == RoundBits(K, e, sticky, NBitLen(K))

\* Python's x * y on floats
FMul(x, y) == RoundToDouble(NMul(x.m, y.m), x.e + y.e, FALSE)

FMinExp(x, y) == IF x.e < y.e THEN x.e ELSE y.e
FAligned(x, e0) == NShlBits(x.m, x.e - e0)

FAddAt(x, y, e0) ==
    RoundToDouble(NAdd(FAligned(x, e0), FAligned(y, e0)), e0, FALSE)

\* Python's x + y on floats
FAdd(x, y) ==
    IF x.m = <<>> THEN y
    ELSE IF y.m = <<>> THEN x
    ELSE FAddAt(x, y, FMinExp(x, y))

FCmpAt(x, y, e0) == NCmp(FAligned(x, e0), FAligned(y, e0))

\* Python's x >= y on floats
FGe(x, y) ==
    IF y.m = <<>> THEN TRUE
    ELSE IF x.m = <<>> THEN FALSE
    ELSE FCmpAt(x, y, FMinExp(x, y)) >= 0

\* Python's x > y on floats
FGt(x, y) == ~FGe(y, x)

GuardBits == MantBits + 17

FromDivMod(qr) == RoundToDouble(NTrim(qr[1]), 0 - GuardBits, qr[2] # 0)

\* the double nearest to n / d: what a decimal literal, or the true
\* division of two small integers, evaluates to
FromRatio(n, d) == FromDivMod(NDivMod(NShlBits(NFromInt(n), GuardBits), d))

\* the double a two-decimal literal denotes: Float(85) is 0.85
Float(centi) == FromRatio(centi, 100)

Round2Scaled(K, e) ==
    IF e >= 0 THEN NToInt(NShlBits(K, e))
    ELSE NToInt(RoundCut(K, 0 - e, FALSE))

\* Python's round(x, 2), as a number of hundredths: the exact binary value
\* is rounded correctly, ties to even
round2(x) ==
    IF x.m = <<>> THEN 0 ELSE Round2Scaled(NMulSmall(x.m, 100), x.e)

(***************************************************************************)
(* Strings.  Python compares and searches strings by characters; here a    *)
(* string is a TLA+ string, searched with SubSeq.  StringTable lists, in   *)
(* Python's sort order, every string the analyzer puts into a set;         *)
(* StrIndex is the rank sorted() orders them by.                           *)
(***************************************************************************)
StartsWith(s, p) == Len(p) <= Len(s) /\ SubSeq(s, 1, Len(p)) = p

EndsWith(s, p) ==
    Len(p) <= Len(s) /\ SubSeq(s, Len(s) - Len(p) + 1, Len(s)) = p

\* Python's  p in s
Contains(s, p) ==
    \E i \in 1..(Len(s) - Len(p) + 1) : SubSeq(s, i, i + Len(p) - 1) = p

StringTable == <<
    "808", "909", "BLUE", "CLEAN", "GENERIC", "MICRO", "NT", "PIANO",
    "S95X", "TUBRO", "TURBO", "WURLI", "acoustic", "aggressive",
    "balanced", "bright", "classic", "clean", "clear", "controlled",
    "crisp", "dark", "deep", "distorted", "electric", "electronic",
    "harmonic", "heavy", "high-frequency", "low-frequency", "melodic",
    "mid-frequency", "modern", "natural", "neutral", "organic", "pad",
    "percussive", "pitched", "polished", "powerful", "punchy", "ringing",
    "sharp", "short", "smooth", "sub", "sustained", "synth", "tight",
    "vintage", "warm" >>

StrIndex(s) == CHOOSE i \in 1..Len(StringTable) : StringTable[i] = s

\* Python's sorted() of a collection of strings
RECURSIVE SortedStrings(_)
SortedStrings(S) ==
    IF S = {} THEN <<>>
    ELSE LET x == CHOOSE y \in S : \A z \in S : StrIndex(y) <= StrIndex(z)
         IN  <<x>> \o SortedStrings(S \ {x})

\* hash(s) in an interpreter whose string hashing is keyed by hashseed
\* (PYTHONHASHSEED, random for each process unless it is set): one
\* injective keyed function of the string per hash seed
HashPrime == 53
StrHash(hashseed, s) ==
    (StrIndex(s) * (2 * hashseed + 3) + 7 * hashseed) % HashPrime

\* list(S) for a set S of strings: the set's iteration order follows the
\* hashes of its members
RECURSIVE PySetList(_, _)
PySetList(S, hashseed) ==
    IF S = {} THEN <<>>
    ELSE LET x == CHOOSE y \in S :
                    \A z \in S : StrHash(hashseed, y) <= StrHash(hashseed, z)
         IN  <<x>> \o PySetList(S \ {x}, hashseed)

\* list(S) for a set S of sound ids.  An int hashes to itself whatever the
\* hash seed, so the order is the same in every interpreter; every use of
\* the list reads it through membership, length or sorted(), and the order
\* is written here as the ascending one.
RECURSIVE PyIntSetList(_)
PyIntSetList(S) ==
    IF S = {} THEN <<>>
    ELSE LET x == CHOOSE y \in S : \A z \in S : y <= z
         IN  <<x>> \o PyIntSetList(S \ {x})

\* ", ".join(seq)
RECURSIVE JoinComma(_)
JoinComma(seq) ==
    IF seq = <<>> THEN ""
    ELSE IF Len(seq) = 1 THEN seq[1]
    ELSE seq[1] \o ", " \o JoinComma(Tail(seq))

SeqToSet(seq) == {seq[i] : i \in 1..Len(seq)}

RECURSIVE ConcatAll(_)
ConcatAll(seqs) ==
    IF seqs = <<>> THEN <<>> ELSE seqs[1] \o ConcatAll(Tail(seqs))

SelectIn(seq, S) == SelectSeq(seq, LAMBDA x : x \in S)

(***************************************************************************)
(* The sound library (midi_interface.py)                                   *)
(***************************************************************************)
SOUND_LIBRARY ==
    ( "Kicks" :> ( 1 :> "MICRO KICK" @@ 2 :> "NT KICK" @@ 3 :> "NT KICK B"
                   @@ 4 :> "NT KICK C" @@ 5 :> "NT KICK D" )
   @@ "Snares" :> ( 100 :> "NT SNARE" @@ 101 :> "NT SNARE B"
                    @@ 102 :> "NT SNARE C" )
   @@ "Cymbals and Hats" :> ( 200 :> "NT HH CLOSED" @@ 201 :> "NT HH CLOSED B"
                              @@ 218 :> "NT HH OPEN" )
   @@ "Percussion" :> ( 300 :> "NT CLAP" @@ 301 :> "NT CLAP B"
                        @@ 302 :> "NT CLAP C" )
   @@ "Bass" :> ( 400 :> "NT BASS" @@ 401 :> "S95X ROUND"
                  @@ 402 :> "TUBRO BASS" )
   @@ "Melodic & Synth" :> ( 500 :> "BLUE" @@ 501 :> "PIANO S95X"
                             @@ 502 :> "WURLI CLEAN" ) )

LibraryIds == UNION {DOMAIN SOUND_LIBRARY[c] : c \in DOMAIN SOUND_LIBRARY}

(***************************************************************************)
(* Sound profiles (sound_compatibility.py)                                 *)
(***************************************************************************)
\* the ordered patterns of _extract_family: ^(X)\s is a prefix "X ",
\* \s(X)$ a suffix " X", ^(X) a prefix "X"; the library's names are upper
\* case, so re.IGNORECASE changes nothing and group(1).upper() is X
FamilyPatterns == <<
    [at |-> "start", text |-> "NT ",    family |-> "NT"],
    [at |-> "start", text |-> "808 ",   family |-> "808"],
    [at |-> "start", text |-> "909 ",   family |-> "909"],
    [at |-> "start", text |-> "S95X ",  family |-> "S95X"],
    [at |-> "start", text |-> "MICRO ", family |-> "MICRO"],
    [at |-> "start", text |-> "TURBO ", family |-> "TURBO"],
    [at |-> "start", text |-> "TUBRO ", family |-> "TUBRO"],
    [at |-> "end",   text |-> " CLEAN", family |-> "CLEAN"],
    [at |-> "start", text |-> "BLUE",   family |-> "BLUE"],
    [at |-> "start", text |-> "PIANO",  family |-> "PIANO"],
    [at |-> "start", text |-> "WURLI",  family |-> "WURLI"] >>

PatternMatches(pattern, sound_name) ==
    IF pattern.at = "start" THEN StartsWith(sound_name, pattern.text)
    ELSE EndsWith(sound_name, pattern.text)

extract_family(sound_name) ==
    LET hits == {i \in 1..Len(FamilyPatterns) :
                    PatternMatches(FamilyPatterns[i], sound_name)}
    IN  IF hits = {} THEN "GENERIC"
        ELSE FamilyPatterns[CHOOSE i \in hits : \A j \in hits : i <= j].family

\* the name rules of _infer_characteristics: any of the substrings adds
\* the tags
CharacteristicRules == <<
    [any |-> {"NT"},             tags |-> {"natural", "acoustic", "organic"}],
    [any |-> {"808", "BASS"},    tags |-> {"deep", "sub", "powerful"}],
    [any |-> {"909"},            tags |-> {"classic", "punchy", "electronic"}],
    [any |-> {"MICRO"},          tags |-> {"tight", "short", "crisp"}],
    [any |-> {"CLEAN"},          tags |-> {"clean", "clear", "polished"}],
    [any |-> {"OPEN"},           tags |-> {"sustained", "ringing", "bright"}],
    [any |-> {"CLOSED"},         tags |-> {"tight", "short", "controlled"}],
    [any |-> {"CLAP"},           tags |-> {"percussive", "sharp", "bright"}],
    [any |-> {"S95X"},           tags |-> {"synth", "electronic", "modern"}],
    [any |-> {"TURBO", "TUBRO"}, tags |-> {"aggressive", "distorted", "heavy"}],
    [any |-> {"PIANO"},          tags |-> {"melodic", "harmonic", "acoustic"}],
    [any |-> {"WURLI"},          tags |-> {"vintage", "electric", "warm"}],
    [any |-> {"BLUE"},           tags |-> {"smooth", "synth", "pad"}] >>

CategoryCharacteristics(category) ==
    IF category = "Kicks" THEN {"low-frequency"}
    ELSE IF category = "Snares" THEN {"mid-frequency"}
    ELSE IF category = "Cymbals and Hats" THEN {"high-frequency"}
    ELSE IF category = "Bass" THEN {"low-frequency", "harmonic"}
    ELSE IF category = "Melodic & Synth" THEN {"harmonic", "pitched"}
    ELSE {}

infer_characteristics(sound_name, category) ==
    UNION {CharacteristicRules[i].tags :
             i \in {j \in 1..Len(CharacteristicRules) :
                      \E p \in CharacteristicRules[j].any :
                          Contains(sound_name, p)}}
    \cup CategoryCharacteristics(category)

infer_timbre(sound_name, characteristics) ==
    IF Contains(sound_name, "WURLI") \/ "natural" \in characteristics
    THEN "warm"
    ELSE IF Contains(sound_name, "CLEAN") \/ Contains(sound_name, "OPEN")
            \/ Contains(sound_name, "CLAP")
    THEN "bright"
    ELSE IF Contains(sound_name, "BASS") \/ Contains(sound_name, "MICRO")
    THEN "dark"
    ELSE IF Contains(sound_name, "S95X") \/ Contains(sound_name, "BLUE")
    THEN "neutral"
    ELSE "balanced"

build_sound_profiles ==
    [sid \in LibraryIds |->
        LET category == CHOOSE c \in DOMAIN SOUND_LIBRARY :
                            sid \in DOMAIN SOUND_LIBRARY[c]
            name == SOUND_LIBRARY[category][sid]
            characteristics == infer_characteristics(name, category)
        IN  [sound_id |-> sid,
             name |-> name,
             category |-> category,
             family |-> extract_family(name),
             characteristics |-> characteristics,
             timbre |-> infer_timbre(name, characteristics)]]

sound_profiles == build_sound_profiles

\* the curated kits, in the order the dict enumerates them
define_sound_kits == <<
    [name |-> "Natural Kit", family |-> "NT",
     kick |-> <<2, 3, 4, 5>>, snare |-> <<100, 101, 102>>,
     hat |-> <<200, 201, 218>>, perc |-> <<300, 301, 302>>,
     timbre |-> "warm", style |-> "organic"],
    [name |-> "Electronic Kit", family |-> "S95X",
     kick |-> <<1>>, snare |-> <<100>>, hat |-> <<200, 201>>,
     perc |-> <<300>>, bass |-> <<401>>, melodic |-> <<500, 501, 502>>,
     timbre |-> "bright", style |-> "electronic"],
    [name |-> "Hybrid Kit", family |-> "MIXED",
     kick |-> <<1, 2, 3>>, snare |-> <<100, 101>>,
     hat |-> <<200, 201, 218>>, perc |-> <<300, 301>>,
     bass |-> <<400, 401>>, melodic |-> <<501, 502>>,
     timbre |-> "balanced", style |-> "hybrid"],
    [name |-> "Heavy Kit", family |-> "HEAVY",
     kick |-> <<5>>, snare |-> <<102>>, hat |-> <<218>>, perc |-> <<302>>,
     bass |-> <<402>>, timbre |-> "dark", style |-> "aggressive"] >>

sound_kits == define_sound_kits

\* [self.sound_profiles[sid] for sid in sound_ids if sid in self.sound_profiles]
ProfileList(known) == [i \in 1..Len(known) |-> sound_profiles[known[i]]]

ProfilesOf(sound_ids) ==
    ProfileList(SelectIn(sound_ids, DOMAIN sound_profiles))

(***************************************************************************)
(* The three checks.  A check's result is a dict; with no known sound it   *)
(* has no "score" key.  hashseed is the hash seed of the interpreter the   *)
(* call runs in.                                                           *)
(***************************************************************************)
\* family_rules with the second rule admitting three families
family_rules_nt3(families, listed) ==
    IF Cardinality(families) = 1
    THEN [compatible |-> TRUE, score |-> 100, families |-> listed,
          reason |-> "All sounds from " \o listed[1]
                     \o " family - excellent coherence"]
    ELSE IF "NT" \in families /\ Cardinality(families) <= 3
    THEN [compatible |-> TRUE, score |-> 85, families |-> listed,
          reason |-> "NT sounds with other families - good compatibility"]
    ELSE IF Cardinality(families) <= 3
    THEN [compatible |-> TRUE, score |-> 70, families |-> listed,
          reason |-> "Multiple families - acceptable mix, watch for coherence"]
    ELSE [compatible |-> FALSE, score |-> 40, families |-> listed,
          reason |-> "Too many different sound families - may lack coherence"]

\* family_rules with its first two rules in the other order
family_rules_nt_first(families, listed) ==
    IF "NT" \in families /\ Cardinality(families) <= 2
    THEN [compatible |-> TRUE, score |-> 85, families |-> listed,
          reason |-> "NT sounds with other families - good compatibility"]
    ELSE IF Cardinality(families) = 1
    THEN [compatible |-> TRUE, score |-> 100, families |-> listed,
          reason |-> "All sounds from " \o listed[1]
                     \o " family - excellent coherence"]
    ELSE IF Cardinality(families) <= 3
    THEN [compatible |-> TRUE, score |-> 70, families |-> listed,
          reason |-> "Multiple families - acceptable mix, watch for coherence"]
    ELSE [compatible |-> FALSE, score |-> 40, families |-> listed,
          reason |-> "Too many different sound families - may lack coherence"]

\* the family rules, on the set of families and on list(families)
family_rules(families, listed) ==
    IF Cardinality(families) = 1
    THEN [compatible |-> TRUE, score |-> 100, families |-> listed,
          reason |-> "All sounds from " \o listed[1]
                     \o " family - excellent coherence"]
    ELSE IF "NT" \in families /\ Cardinality(families) <= 2
    THEN [compatible |-> TRUE, score |-> 85, families |-> listed,
          reason |-> "NT sounds with other families - good compatibility"]
    ELSE IF Cardinality(families) <= 3
    THEN [compatible |-> TRUE, score |-> 70, families |-> listed,
          reason |-> "Multiple families - acceptable mix, watch for coherence"]
    ELSE [compatible |-> FALSE, score |-> 40, families |-> listed,
          reason |-> "Too many different sound families - may lack coherence"]

FamiliesOf(profiles) == {profiles[i].family : i \in 1..Len(profiles)}

family_check_of(profiles, hashseed) ==
    IF profiles = <<>>
    THEN [compatible |-> FALSE, reason |-> "No valid sounds"]
    ELSE family_rules(FamiliesOf(profiles),
                      PySetList(FamiliesOf(profiles), hashseed))

check_family_compatibility(sound_ids, hashseed) ==
    family_check_of(ProfilesOf(sound_ids), hashseed)

\* category_counts: for each category present, how many profiles have it
CategoryCounts(profiles) ==
    [c \in {profiles[i].category : i \in 1..Len(profiles)} |->
        Cardinality({i \in 1..Len(profiles) : profiles[i].category = c})]

\* the balance rules, on category_counts
balance_rules(category_counts) ==
    LET has_kicks  == "Kicks" \in DOMAIN category_counts
        has_snares == "Snares" \in DOMAIN category_counts
        has_hats   == "Cymbals and Hats" \in DOMAIN category_counts
    IN  IF has_kicks /\ has_snares /\ has_hats
        THEN [balanced |-> TRUE, score |-> 100,
              categories |-> category_counts,
              reason |-> "Good balance: has essential drum elements"]
        ELSE IF has_kicks /\ has_snares
        THEN [balanced |-> TRUE, score |-> 80,
              categories |-> category_counts,
              reason |-> "Acceptable: has kicks and snares, missing hats"]
        ELSE IF has_kicks
        THEN [balanced |-> FALSE, score |-> 50,
              categories |-> category_counts,
              reason |-> "Unbalanced: only has kicks, missing snares and hats"]
        ELSE [balanced |-> FALSE, score |-> 30,
              categories |-> category_counts,
              reason |-> "Very unbalanced: missing essential drum elements"]

balance_check_of(profiles) ==
    IF profiles = <<>>
    THEN [balanced |-> FALSE, reason |-> "No valid sounds"]
    ELSE balance_rules(CategoryCounts(profiles))

check_category_balance(sound_ids) == balance_check_of(ProfilesOf(sound_ids))

\* timbre_rules without the test for "neutral" in its second rule
timbre_rules_balanced_only(timbres, timbre_set, listed) ==
    IF Cardinality(timbre_set) = 1
    THEN [compatible |-> TRUE, score |-> 95, timbres |-> listed,
          reason |-> "Uniform " \o timbres[1] \o " timbre - excellent coherence"]
    ELSE IF "balanced" \in timbre_set
    THEN [compatible |-> TRUE, score |-> 90, timbres |-> listed,
          reason |-> "Includes balanced timbres - good compatibility"]
    ELSE IF timbre_set = {"warm", "bright"} \/ timbre_set = {"warm", "dark"}
    THEN [compatible |-> TRUE, score |-> 85, timbres |-> listed,
          reason |-> "Complementary timbres - creates nice contrast"]
    ELSE IF Cardinality(timbre_set) <= 2
    THEN [compatible |-> TRUE, score |-> 75, timbres |-> listed,
          reason |-> "Mixed timbres - acceptable variety"]
    ELSE [compatible |-> FALSE, score |-> 50, timbres |-> listed,
          reason |-> "Too many different timbres - may sound disjointed"]

\* the timbre rules, on the list of timbres, its set and list(timbre_set)
timbre_rules(timbres, timbre_set, listed) ==
    IF Cardinality(timbre_set) = 1
    THEN [compatible |-> TRUE, score |-> 95, timbres |-> listed,
          reason |-> "Uniform " \o timbres[1] \o " timbre - excellent coherence"]
    ELSE IF "balanced" \in timbre_set \/ "neutral" \in timbre_set
    THEN [compatible |-> TRUE, score |-> 90, timbres |-> listed,
          reason |-> "Includes balanced timbres - good compatibility"]
    ELSE IF timbre_set = {"warm", "bright"} \/ timbre_set = {"warm", "dark"}
    THEN [compatible |-> TRUE, score |-> 85, timbres |-> listed,
          reason |-> "Complementary timbres - creates nice contrast"]
    ELSE IF Cardinality(timbre_set) <= 2
    THEN [compatible |-> TRUE, score |-> 75, timbres |-> listed,
          reason |-> "Mixed timbres - acceptable variety"]
    ELSE [compatible |-> FALSE, score |-> 50, timbres |-> listed,
          reason |-> "Too many different timbres - may sound disjointed"]

TimbresOf(profiles) == [i \in 1..Len(profiles) |-> profiles[i].timbre]

timbre_check_of(profiles, hashseed) ==
    IF profiles = <<>>
    THEN [compatible |-> FALSE, reason |-> "No valid sounds"]
    ELSE timbre_rules(TimbresOf(profiles), SeqToSet(TimbresOf(profiles)),
                      PySetList(SeqToSet(TimbresOf(profiles)), hashseed))

check_timbre_compatibility(sound_ids, hashseed) ==
    timbre_check_of(ProfilesOf(sound_ids), hashseed)

(***************************************************************************)
(* analyze_composition.  d['score'] on a dict without that key raises      *)
(* KeyError; a call that raises yields [raised |-> <exception>] here.      *)
(***************************************************************************)
HasKey(d, k) == k \in DOMAIN d

Raised(result) == HasKey(result, "raised")

\* weighted_score with the weights of balance and timbre exchanged
weighted_score_swapped(family_score, balance_score, timbre_score) ==
    FAdd(FAdd(FMul(Float(family_score), Float(40)),
              FMul(Float(balance_score), Float(25))),
         FMul(Float(timbre_score), Float(35)))

\* family*0.4 + balance*0.35 + timbre*0.25 on floats, left to right
weighted_score(family_score, balance_score, timbre_score) ==
    FAdd(FAdd(FMul(Float(family_score), Float(40)),
              FMul(Float(balance_score), Float(35))),
         FMul(Float(timbre_score), Float(25)))

rating_of(overall_score) ==
    IF FGe(overall_score, Float(85))
    THEN [rating |-> "EXCELLENT",
          verdict |-> "These sounds will work very well together!"]
    ELSE IF FGe(overall_score, Float(70))
    THEN [rating |-> "GOOD",
          verdict |-> "These sounds should work well together."]
    ELSE IF FGe(overall_score, Float(55))
    THEN [rating |-> "ACCEPTABLE",
          verdict |-> "These sounds may work, but could use refinement."]
    ELSE [rating |-> "NEEDS IMPROVEMENT",
          verdict |->
            "Consider adjusting sound selection for better coherence."]

\* the dict analyze_composition returns
analysis_report(family_check, balance_check, timbre_check, n, rounded, band) ==
    [overall_score |-> rounded,
     rating |-> band.rating,
     verdict |-> band.verdict,
     family_analysis |-> family_check,
     balance_analysis |-> balance_check,
     timbre_analysis |-> timbre_check,
     sound_count |-> n]

rate_checks(family_check, balance_check, timbre_check, n, overall_score) ==
    analysis_report(family_check, balance_check, timbre_check, n,
                    round2(overall_score), rating_of(overall_score))

combine_checks(family_check, balance_check, timbre_check, sound_count) ==
    IF ~HasKey(family_check, "score") \/ ~HasKey(balance_check, "score")
       \/ ~HasKey(timbre_check, "score")
    THEN [raised |-> "KeyError: 'score'"]
    ELSE rate_checks(family_check, balance_check, timbre_check, sound_count,
                     weighted_score(family_check.score, balance_check.score,
                                    timbre_check.score))

analyze_composition(sound_ids, hashseed) ==
    combine_checks(check_family_compatibility(sound_ids, hashseed),
                   check_category_balance(sound_ids),
                   check_timbre_compatibility(sound_ids, hashseed),
                   Len(sound_ids))

(***************************************************************************)
(* find_matching_kit and get_sound_summary                                 *)
(***************************************************************************)
None == "<None>"

\* the categories without the two that only some kits have
KitCategories_drums == << "kick", "snare", "hat", "perc" >>

KitCategories == << "kick", "snare", "hat", "perc", "bass", "melodic" >>

kit_sounds_of(kit_data) ==
    ConcatAll([i \in 1..Len(KitCategories) |->
                 IF HasKey(kit_data, KitCategories[i])
                 THEN kit_data[KitCategories[i]] ELSE <<>>])

\* overlap / len(sound_ids) if sound_ids else 0
kit_score(sound_ids, kit_sounds) ==
    IF sound_ids # <<>>
    THEN FromRatio(Cardinality(SeqToSet(sound_ids) \cap SeqToSet(kit_sounds)),
                   Len(sound_ids))
    ELSE FZero

\* one pass of the loop body: the new [match, score]
kit_step(kit_name, score, best) ==
    IF FGt(score, best.score) THEN [match |-> kit_name, score |-> score]
    ELSE best

\* the loop over the kits from kit i on
RECURSIVE kit_loop(_, _, _)
kit_loop(sound_ids, i, best) ==
    IF i > Len(sound_kits) THEN best
    ELSE kit_loop(sound_ids, i + 1,
                  kit_step(sound_kits[i].name,
                           kit_score(sound_ids, kit_sounds_of(sound_kits[i])),
                           best))

\* kit_result with >= in place of >
kit_result_ge(best) == IF FGe(best.score, Float(30)) THEN best.match ELSE None

\* return best_match if best_score > 0.3 else None
kit_result(best) == IF FGt(best.score, Float(30)) THEN best.match ELSE None

find_matching_kit(sound_ids) ==
    IF ProfilesOf(sound_ids) = <<>> THEN None
    ELSE kit_result(kit_loop(sound_ids, 1, [match |-> None, score |-> FZero]))

\* list(profile.characteristics)[:3]
FirstThree(seq) == SubSeq(seq, 1, IF Len(seq) < 3 THEN Len(seq) ELSE 3)

summary_of(profile, hashseed) ==
    profile.name \o " (" \o profile.family \o " family, "
    \o profile.timbre \o " timbre: "
    \o JoinComma(SortedStrings(SeqToSet(
           FirstThree(PySetList(profile.characteristics, hashseed)))))
    \o ")"

get_sound_summary(sound_id, hashseed) ==
    IF sound_id \notin LibraryIds
    THEN "Unknown sound (ID: " \o ToString(sound_id) \o ")"
    ELSE summary_of(sound_profiles[sound_id], hashseed)

(***************************************************************************)
(* The random module (time_based_generator.py imports it): one generator   *)
(* for the whole interpreter, shared by every object and thread that       *)
(* draws from it.  The Mersenne Twister is stood in for by a linear        *)
(* congruential generator of RngBits bits; rng.a is its multiplier, rng.x  *)
(* its state.  What matters of it: seed() replaces the whole state by a    *)
(* function of the seed, every draw advances the state, and what a draw    *)
(* returns is a function of the state it reaches.                          *)
(***************************************************************************)
RngBits == 16
RngModulus == 2^RngBits
RngIncrement == 13849
Multipliers == {25173, 4005}

\* a seed() that leaves the state as it is
seed_rng_kept(rng, a) == rng

\* random.seed(a)
seed_rng(rng, a) == [a |-> rng.a, x |-> a % RngModulus]

\* the state after one more draw
Advance(rng) ==
    [a |-> rng.a, x |-> (rng.a * rng.x + RngIncrement) % RngModulus]

Advance2(rng) == Advance(Advance(rng))
Advance3(rng) == Advance(Advance(Advance(rng)))

\* in each of the following rng is the state the draw has reached
\* random.random() is rng.x / RngModulus; Cut(p) is the number of its
\* values that are < p, for a float 0 <= p < 1
CutBits(m, s) ==
    NToInt(NShrBits(m, s)) + (IF NLowBits(m, s) = <<>> THEN 0 ELSE 1)

Cut(p) == IF p.m = <<>> THEN 0 ELSE CutBits(p.m, 0 - (p.e + RngBits))

\* random.random() < p, for cut = Cut(p)
random_below(rng, cut) == rng.x < cut

randbelow(rng, n) == (rng.x * n) \div RngModulus

\* random.randint(a, b)
randint(rng, a, b) == a + randbelow(rng, b - a + 1)

\* random.choice(seq)
choice(rng, seq) == seq[1 + randbelow(rng, Len(seq))]

(***************************************************************************)
(* TimeBasedGenerator (time_based_generator.py)                            *)
(***************************************************************************)
bpm == 120
bars == 4
beats_per_bar == 4
subdivisions == 4

steps == bars * beats_per_bar * subdivisions

beat_position(step) == step % subdivisions
bar_beat(step) == (step \div subdivisions) % beats_per_bar

\* Event with the steps counted from 1
Event_from_one(step, note, velocity, sound_id) ==
    [step |-> step + 1, note |-> note, velocity |-> velocity,
     sound_id |-> sound_id]

Event(step, note, velocity, sound_id) ==
    [step |-> step, note |-> note, velocity |-> velocity,
     sound_id |-> sound_id]

\* a lane under construction: the pattern so far and the generator's state
Lane(pattern, rng) == [pattern |-> pattern, rng |-> rng]

\* the loops below look at the lane on every pass, so that it is computed
\* pass by pass and not as one nested expression when the loop ends
IsLane(lane) == Len(lane.pattern) <= steps /\ lane.rng.x < RngModulus

\* kick_strong with the kick variants numbered from 0
kick_strong_from_zero(step, pattern, r1, r2) ==
    Lane(Append(pattern, Event(step, 36, randint(r1, 90, 127),
                               choice(r2, <<0, 1, 2, 3, 4>>))), r2)

\* kick on beats 1 and 3; r1, r2 are the states of the two draws
kick_strong(step, pattern, r1, r2) ==
    Lane(Append(pattern, Event(step, 36, randint(r1, 90, 127),
                               choice(r2, <<1, 2, 3, 4, 5>>))), r2)

\* kick_variation without the test of beat_position
kick_variation_anywhere(step, pattern, r1, r2, r3, cut) ==
    IF random_below(r1, cut)
    THEN Lane(Append(pattern, Event(step, 36, randint(r2, 60, 90),
                                    choice(r3, <<1, 2, 3>>))), r3)
    ELSE Lane(pattern, r1)

\* the elif: random.random() is drawn before beat_position is looked at
kick_variation(step, pattern, r1, r2, r3, cut) ==
    IF random_below(r1, cut) /\ beat_position(step) = 0
    THEN Lane(Append(pattern, Event(step, 36, randint(r2, 60, 90),
                                    choice(r3, <<1, 2, 3>>))), r3)
    ELSE Lane(pattern, r1)

kick_step(step, pattern, rng, cut) ==
    IF bar_beat(step) \in {0, 2} /\ beat_position(step) = 0
    THEN kick_strong(step, pattern, Advance(rng), Advance2(rng))
    ELSE kick_variation(step, pattern, Advance(rng), Advance2(rng),
                        Advance3(rng), cut)

RECURSIVE kick_loop(_, _, _)
kick_loop(step, lane, cut) ==
    IF step = steps \/ ~IsLane(lane) THEN lane
    ELSE kick_loop(step + 1, kick_step(step, lane.pattern, lane.rng, cut),
                   cut)

generate_kick_pattern(rng, density) ==
    kick_loop(0, Lane(<<>>, rng), Cut(FMul(density, Float(30))))

\* snare on beats 2 and 4
snare_strong(step, pattern, r1, r2) ==
    Lane(Append(pattern, Event(step, 38, randint(r1, 85, 120),
                               choice(r2, <<100, 101, 102>>))), r2)

\* snare_ghost with the ghost note's sound chosen among the variants
snare_ghost_variants(step, pattern, r1, r2, cut) ==
    IF random_below(r1, cut) /\ beat_position(step) \in {2}
    THEN Lane(Append(pattern, Event(step, 38, randint(r2, 40, 70),
                                    choice(Advance(r2), <<100, 101, 102>>))),
              Advance(r2))
    ELSE Lane(pattern, r1)

\* ghost notes
snare_ghost(step, pattern, r1, r2, cut) ==
    IF random_below(r1, cut) /\ beat_position(step) \in {2}
    THEN Lane(Append(pattern, Event(step, 38, randint(r2, 40, 70), 100)), r2)
    ELSE Lane(pattern, r1)

snare_step(step, pattern, rng, cut) ==
    IF bar_beat(step) \in {1, 3} /\ beat_position(step) = 0
    THEN snare_strong(step, pattern, Advance(rng), Advance2(rng))
    ELSE snare_ghost(step, pattern, Advance(rng), Advance2(rng), cut)

RECURSIVE snare_loop(_, _, _)
snare_loop(step, lane, cut) ==
    IF step = steps \/ ~IsLane(lane) THEN lane
    ELSE snare_loop(step + 1, snare_step(step, lane.pattern, lane.rng, cut),
                    cut)

generate_snare_pattern(rng, density) ==
    snare_loop(0, Lane(<<>>, rng), Cut(FMul(density, Float(40))))

\* hat_interval with <= in its second test
hat_interval_le(complexity) ==
    IF ~FGe(complexity, Float(33)) THEN subdivisions
    ELSE IF ~FGt(complexity, Float(66)) THEN subdivisions \div 2
    ELSE 1

hat_interval(complexity) ==
    IF ~FGe(complexity, Float(33)) THEN subdivisions
    ELSE IF ~FGe(complexity, Float(66)) THEN subdivisions \div 2
    ELSE 1

\* a hat on the interval: is_open, then the velocity, then the sound
hat_regular(step, pattern, r1, r2, r3, open_cut) ==
    IF random_below(r1, open_cut)
    THEN Lane(Append(pattern, Event(step, 46, randint(r2, 80, 110), 218)), r2)
    ELSE Lane(Append(pattern, Event(step, 42, randint(r2, 70, 100),
                                    choice(r3, <<200, 201>>))), r3)

\* occasional accents
hat_accent(step, pattern, r1, r2, r3, cut) ==
    IF random_below(r1, cut)
    THEN Lane(Append(pattern, Event(step, 42, randint(r2, 50, 80),
                                    choice(r3, <<200, 201>>))), r3)
    ELSE Lane(pattern, r1)

hat_step(step, pattern, rng, interval, cut) ==
    IF step % interval = 0
    THEN hat_regular(step, pattern, Advance(rng), Advance2(rng),
                     Advance3(rng), Cut(Float(20)))
    ELSE hat_accent(step, pattern, Advance(rng), Advance2(rng),
                    Advance3(rng), cut)

RECURSIVE hat_loop(_, _, _, _)
hat_loop(step, lane, interval, cut) ==
    IF step = steps \/ ~IsLane(lane) THEN lane
    ELSE hat_loop(step + 1,
                  hat_step(step, lane.pattern, lane.rng, interval, cut),
                  interval, cut)

generate_hat_pattern(rng, density, complexity) ==
    hat_loop(0, Lane(<<>>, rng), hat_interval(complexity),
             Cut(FMul(density, Float(30))))

\* a clap or other percussion: velocity, then note, then sound
perc_hit(step, pattern, r1, r2, r3, r4, cut) ==
    IF random_below(r1, cut)
    THEN Lane(Append(pattern, Event(step, choice(r3, <<39, 54, 56>>),
                                    randint(r2, 60, 100),
                                    choice(r4, <<300, 301, 302>>))), r4)
    ELSE Lane(pattern, r1)

perc_step(step, pattern, rng, cut) ==
    perc_hit(step, pattern, Advance(rng), Advance2(rng), Advance3(rng),
             Advance(Advance3(rng)), cut)

RECURSIVE perc_loop(_, _, _)
perc_loop(step, lane, cut) ==
    IF step = steps \/ ~IsLane(lane) THEN lane
    ELSE perc_loop(step + 1, perc_step(step, lane.pattern, lane.rng, cut),
                   cut)

\* generate_percussion_pattern with a draw made before complexity is
\* looked at
generate_percussion_pattern_drawn(rng, complexity) ==
    IF ~FGe(complexity, Float(30)) THEN Lane(<<>>, Advance(rng))
    ELSE perc_loop(0, Lane(<<>>, rng), Cut(FMul(complexity, Float(15))))

generate_percussion_pattern(rng, complexity) ==
    IF ~FGe(complexity, Float(30)) THEN Lane(<<>>, rng)
    ELSE perc_loop(0, Lane(<<>>, rng), Cut(FMul(complexity, Float(15))))

\* density taken from the thousands of the seed
density_of_thousands(seed) == FromRatio((seed \div 1000) % 100, 100)

density_of(seed) == FromRatio(seed % 100, 100)
complexity_of(seed) == FromRatio(seed % 50, 50)

\* the four lanes, generated in the order kick, snare, hat, perc, each
\* from the state the one before left
with_perc(kick, snare, hat, p) ==
    [patterns |-> [kick |-> kick, snare |-> snare, hat |-> hat,
                   perc |-> p.pattern],
     rng |-> p.rng]

with_hat(kick, snare, h, complexity) ==
    with_perc(kick, snare, h.pattern,
              generate_percussion_pattern(h.rng, complexity))

with_snare(kick, s, density, complexity) ==
    with_hat(kick, s.pattern,
             generate_hat_pattern(s.rng, density, complexity), complexity)

with_kick(k, density, complexity) ==
    with_snare(k.pattern, generate_snare_pattern(k.rng, density), density,
               complexity)

generate_patterns(rng, density, complexity) ==
    with_kick(generate_kick_pattern(rng, density), density, complexity)

\* composition['patterns'].items(): the lanes in insertion order
LaneOrder == << "kick", "snare", "hat", "perc" >>

lane_sound_ids(pattern) == [j \in 1..Len(pattern) |-> pattern[j].sound_id]

\* pattern_sound_ids reading the first lane only
pattern_sound_ids_kick(patterns) == lane_sound_ids(patterns[LaneOrder[1]])

pattern_sound_ids(patterns) ==
    ConcatAll([i \in 1..Len(LaneOrder) |->
                 lane_sound_ids(patterns[LaneOrder[i]])])

\* sorted(unique_sound_ids), each with its summary
sounds_used(sorted_ids, hashseed) ==
    [i \in 1..Len(sorted_ids) |->
        [id |-> sorted_ids[i],
         summary |-> get_sound_summary(sorted_ids[i], hashseed)]]

SortedInts(S) == PyIntSetList(S)

with_sound_details(analysis_result, unique_sound_ids, hashseed) ==
    IF Raised(analysis_result) THEN analysis_result
    ELSE analysis_result
         @@ [sounds_used |->
                sounds_used(SortedInts(SeqToSet(unique_sound_ids)), hashseed),
             matching_kit |-> find_matching_kit(unique_sound_ids)]

analyze_unique(unique_sound_ids, hashseed) ==
    IF unique_sound_ids = <<>>
    THEN [analyzed |-> FALSE, reason |-> "No sounds in composition"]
    ELSE with_sound_details(analyze_composition(unique_sound_ids, hashseed),
                            unique_sound_ids, hashseed)

analyze_sound_compatibility(patterns, hashseed) ==
    analyze_unique(PyIntSetList(SeqToSet(pattern_sound_ids(patterns))),
                   hashseed)

\* the clock: seconds since midnight
SecondsPerDay == 24 * 60 * 60
After(now, d) == (now + d) % SecondsPerDay
TimeOfDay(h, m, sec) == (h * 60 + m) * 60 + sec

hour(now) == now \div (60 * 60)
minute(now) == (now \div 60) % 60
second(now) == now % 60

TwoDigits(n) == IF n < 10 THEN "0" \o ToString(n) ELSE ToString(n)

\* now.strftime('%H:%M:%S')
strftime(now) ==
    TwoDigits(hour(now)) \o ":" \o TwoDigits(minute(now)) \o ":"
    \o TwoDigits(second(now))

\* now.isoformat(); the clock here carries the time of day only
isoformat(now) == "T" \o strftime(now)

\* get_time_seed with the hour weighted 1000
get_time_seed_1000(now) == hour(now) * 1000 + minute(now) * 100 + second(now)

get_time_seed(now) == hour(now) * 10000 + minute(now) * 100 + second(now)

get_bar_seed(bar_number) == bar_number * 1000

composition_of(seed, mode, generated_at, patterns, compatibility) ==
    IF Raised(compatibility) THEN compatibility
    ELSE [metadata |-> [seed |-> seed, mode |-> mode, bpm |-> bpm,
                        bars |-> bars,
                        density |-> round2(density_of(seed)),
                        complexity |-> round2(complexity_of(seed)),
                        generated_at |-> generated_at],
          patterns |-> patterns,
          compatibility |-> compatibility]

\* a call's outcome: the composition it returns (and has stored in
\* self.current_composition) and the state it leaves the generator in
finish_composition(seed, mode, generated_at, lanes, hashseed) ==
    [composition |->
        composition_of(seed, mode, generated_at, lanes.patterns,
                       analyze_sound_compatibility(lanes.patterns, hashseed)),
     rng |-> lanes.rng]

generate_composition(rng, seed, mode, generated_at, hashseed) ==
    finish_composition(seed, mode, generated_at,
                       generate_patterns(seed_rng(rng, seed),
                                         density_of(seed),
                                         complexity_of(seed)),
                       hashseed)

\* composition['metadata'][key] = value, on the dict that is also
\* self.current_composition
with_metadata(out, extra) ==
    IF Raised(out.composition) THEN out
    ELSE [composition |->
              [out.composition EXCEPT !.metadata = @ @@ extra],
          rng |-> out.rng]

generate_from_bar(rng, bar_number, generated_at, hashseed) ==
    with_metadata(
        generate_composition(seed_rng(rng, get_bar_seed(bar_number)),
                             get_bar_seed(bar_number), "bar", generated_at,
                             hashseed),
        [bar_number |-> bar_number])

\* now is the clock read by generate_from_time, seed_now the clock read by
\* get_time_seed
generate_from_time(rng, now, seed_now, generated_at, hashseed) ==
    with_metadata(
        generate_composition(seed_rng(rng, get_time_seed(seed_now)),
                             get_time_seed(seed_now), "clock", generated_at,
                             hashseed),
        [time |-> strftime(now)])

(***************************************************************************)
(* State                                                                   *)
(***************************************************************************)
VARIABLES
    hashseed,       \* the interpreter's string hash seed
    sound_ids,      \* analyzer calls: the list of sound ids passed
    an_pc,          \* analyzer calls: which calls have returned
    checks,         \* what the three checks returned, called directly
    analysis,       \* what analyze_composition returned (or raised)
    matching_kit,   \* what find_matching_kit returned
    rng,            \* the state of the interpreter's random module
    clock,          \* the wall clock, seconds since midnight
    ticks,          \* how many seconds the clock has advanced
    draws,          \* how many draws other code has made from random
    calls,          \* how many calls of the generator have returned
    current_composition,    \* the generator object's field
    returned,       \* the generator's last call and what it returned
    first_call,     \* the generator's first call and what it returned
    run,            \* repeated runs: the seed, the mode, each run's output
    threads,        \* concurrent calls: each thread's position and locals
    attributes,     \* the generator's parameters, the analyzer's tables
    midi_interface, \* the MIDIInterface object: port and connected
    export,         \* the call of export_to_sampler and where it stands
    played,         \* the calls of play_note made, and what each returned
    send_failures,  \* how many sends to the port have failed
    connected,      \* web interface: the global connected
    is_playing,     \* web interface: the global is_playing
    players,        \* web interface: the playback threads started
    requests,       \* web interface: how many requests have been handled
    monitor,        \* USB monitor: is_connected and connected_port
    output_names,   \* what mido.get_output_names() returns now
    callbacks       \* USB monitor: the callbacks invoked, in order

analyzer_vars == <<sound_ids, an_pc, checks, analysis, matching_kit>>
generator_vars ==
    <<rng, clock, ticks, draws, calls, current_composition, returned,
      first_call, attributes>>
export_vars == <<midi_interface, export, played, send_failures>>
web_vars == <<connected, is_playing, players, requests>>
usb_vars == <<monitor, output_names, callbacks>>
other_vars == <<export_vars, web_vars, usb_vars>>
vars == <<hashseed, analyzer_vars, generator_vars, run, threads, other_vars>>

NotCalled == [not_called |-> TRUE]

\* the generator object after __init__, without current_composition: its
\* musical parameters and its analyzer's tables
Attributes ==
    [bpm |-> bpm, bars |-> bars, beats_per_bar |-> beats_per_bar,
     subdivisions |-> subdivisions, sound_profiles |-> sound_profiles,
     sound_kits |-> sound_kits]

\* the MIDIInterface object after __init__
MIDIInterface == [port |-> None, connected |-> FALSE]

\* the parts of the state a specification does not use
AnalyzerIdle ==
    /\ sound_ids = <<>>
    /\ an_pc = "idle"
    /\ checks = NotCalled
    /\ analysis = NotCalled
    /\ matching_kit = "<not called>"

GeneratorIdle ==
    /\ rng = [a |-> 1, x |-> 0]
    /\ clock = 0
    /\ ticks = 0
    /\ draws = 0
    /\ calls = 0
    /\ current_composition = <<>>
    /\ returned = NotCalled
    /\ first_call = NotCalled
    /\ attributes = Attributes

RunsIdle == run = NotCalled
ThreadsIdle == threads = <<>>

ExportIdle ==
    /\ midi_interface = MIDIInterface
    /\ export = NotCalled
    /\ played = <<>>
    /\ send_failures = 0

WebIdle ==
    /\ connected = FALSE
    /\ is_playing = FALSE
    /\ players = <<>>
    /\ requests = 0

UsbIdle ==
    /\ monitor = NotCalled
    /\ output_names = <<>>
    /\ callbacks = <<>>

OthersIdle == ExportIdle /\ WebIdle /\ UsbIdle

(***************************************************************************)
(* The analyzer's functions on bounded inputs (SpecAnalyze)                *)
(***************************************************************************)
MaxHashSeed == 1
HashSeeds == 0..MaxHashSeed

\* the longest list of sound ids drawn from InputIds
MaxIds == 4

\* one or two sounds of each family and timbre the library has, a kick, a
\* snare and a hat among them, and an id (999) the library does not have
InputIds == {1, 2, 5, 100, 200, 401, 402, 500, 502, 999}

\* the analyzer reads its input through membership, counts and length
\* only, so each multiset of ids is drawn once, in ascending order
Ascending(seq) == \A i \in 1..(Len(seq) - 1) : seq[i] <= seq[i + 1]

BoundedLists ==
    UNION {{seq \in [1..n -> InputIds] : Ascending(seq)} : n \in 0..MaxIds}

\* the lists the repository itself passes: the two demo lists of
\* demo_compatibility_analysis and the full id list of each curated kit
ScenarioLists ==
    { <<2, 100, 200, 300>>, <<1, 101, 218, 401>> }
    \cup {kit_sounds_of(sound_kits[i]) : i \in 1..Len(sound_kits)}

\* ten ids of which three or four belong to the best kit, the others being
\* unknown ids or repetitions: overlap ratios of 3/10 and 4/10
ThresholdLists ==
    { <<2, 3, 4, 999, 999, 999, 999, 999, 999, 999>>,
      <<2, 2, 2, 2, 2, 2, 2, 2, 3, 4>>,
      <<2, 3, 4, 5, 999, 999, 999, 999, 999, 999>> }

InputLists == BoundedLists \cup ScenarioLists \cup ThresholdLists

KnownOnly(seq) == SelectIn(seq, LibraryIds)

AnalyzeInit ==
    /\ hashseed \in HashSeeds
    /\ sound_ids \in InputLists
    /\ an_pc = "input"
    /\ checks = NotCalled
    /\ analysis = NotCalled
    /\ matching_kit = "<not called>"
    /\ GeneratorIdle /\ RunsIdle /\ ThreadsIdle /\ OthersIdle

\* the three checks, each called with the list
CallChecks ==
    /\ an_pc = "input"
    /\ checks' = [family  |-> check_family_compatibility(sound_ids, hashseed),
                  balance |-> check_category_balance(sound_ids),
                  timbre  |-> check_timbre_compatibility(sound_ids, hashseed)]
    /\ an_pc' = "checked"
    /\ UNCHANGED <<hashseed, sound_ids, analysis, matching_kit, generator_vars,
                   run, threads, other_vars>>

CallAnalyzeComposition ==
    /\ an_pc = "checked"
    /\ analysis' = analyze_composition(sound_ids, hashseed)
    /\ an_pc' = "analyzed"
    /\ UNCHANGED <<hashseed, sound_ids, checks, matching_kit, generator_vars,
                   run, threads, other_vars>>

CallFindMatchingKit ==
    /\ an_pc = "analyzed"
    /\ matching_kit' = find_matching_kit(sound_ids)
    /\ an_pc' = "done"
    /\ UNCHANGED <<hashseed, sound_ids, checks, analysis, generator_vars, run,
                   threads, other_vars>>

AnalyzeNext ==
    \/ CallChecks
    \/ CallAnalyzeComposition
    \/ CallFindMatchingKit

SpecAnalyze == AnalyzeInit /\ [][AnalyzeNext]_vars

(***************************************************************************)
(* Properties of the analyzer (checked under SpecAnalyze)                  *)
(***************************************************************************)
Analyzed == an_pc \in {"analyzed", "done"}
Checked == an_pc \in {"checked", "analyzed", "done"}

NoValidSounds(check, flag) ==
    /\ HasKey(check, flag) /\ check[flag] = FALSE
    /\ HasKey(check, "reason") /\ check.reason = "No valid sounds"

\* C4: analyze_composition called with a list that has no id of the library
\* (the empty list included) does not raise; it returns a report whose three
\* checks are compatible/balanced = false with reason "No valid sounds" and
\* whose overall score is the one computed from score 0 in each component.
C4_NoValidSoundsReport ==
    (Analyzed /\ KnownOnly(sound_ids) = <<>>) =>
        /\ ~Raised(analysis)
        /\ NoValidSounds(analysis.family_analysis, "compatible")
        /\ NoValidSounds(analysis.balance_analysis, "balanced")
        /\ NoValidSounds(analysis.timbre_analysis, "compatible")
        /\ analysis.overall_score = 0

\* the three scores, the overall score and the rating of a report
Scores(report) ==
    <<report.family_analysis.score, report.balance_analysis.score,
      report.timbre_analysis.score, report.overall_score, report.rating>>

\* C5: for a list with at least one known id, the report has the same three
\* scores, overall score and rating, and find_matching_kit names the same
\* kit, as for the list with its unknown ids removed.
C5_UnknownIdsExcluded ==
    (an_pc = "done" /\ KnownOnly(sound_ids) # <<>>) =>
        /\ ~Raised(analysis)
        /\ Scores(analysis)
             = Scores(analyze_composition(KnownOnly(sound_ids), hashseed))
        /\ matching_kit = find_matching_kit(KnownOnly(sound_ids))

\* C6: for every input list, analyze_composition returns a report whose
\* overall_score lies in [0, 1] (0 to 100 hundredths).
C6_OverallScoreInUnitInterval ==
    Analyzed =>
        /\ ~Raised(analysis)
        /\ analysis.overall_score >= 0
        /\ analysis.overall_score <= 100

\* the rating the documented bands give a score of that many hundredths
BandOf(centi) ==
    IF centi >= 85 THEN "EXCELLENT"
    ELSE IF centi >= 70 THEN "GOOD"
    ELSE IF centi >= 55 THEN "ACCEPTABLE"
    ELSE "NEEDS IMPROVEMENT"

\* C7: in every report the rating is the band of the reported
\* overall_score: >= 0.85 EXCELLENT, >= 0.70 GOOD, >= 0.55 ACCEPTABLE,
\* lower NEEDS IMPROVEMENT.
C7_RatingMatchesReportedScore ==
    (Analyzed /\ ~Raised(analysis)) =>
        analysis.rating = BandOf(analysis.overall_score)

\* 0.40*family + 0.35*balance + 0.25*timbre of a report's three scores, in
\* units of 1/10000, computed exactly
WeightedSum(report) ==
    40 * report.family_analysis.score + 35 * report.balance_analysis.score
    + 25 * report.timbre_analysis.score

Abs(n) == IF n < 0 THEN 0 - n ELSE n

\* C8: for every list with at least one known id, the reported
\* overall_score is 0.40*family_score + 0.35*balance_score +
\* 0.25*timbre_score of the same report rounded to two decimals: a multiple
\* of 0.01 at most 0.005 away from the exact sum.
C8_OverallIsRoundedWeightedSum ==
    (Analyzed /\ KnownOnly(sound_ids) # <<>>) =>
        /\ ~Raised(analysis)
        /\ Abs(100 * analysis.overall_score - WeightedSum(analysis)) <= 50

\* a report whose exact sum lies halfway between two hundredths
C8_Witness ==
    /\ Analyzed /\ KnownOnly(sound_ids) # <<>> /\ ~Raised(analysis)
    /\ WeightedSum(analysis) % 100 = 50

\* the distinct families of the known ids of a list
KnownFamilies(seq) ==
    {sound_profiles[id].family : id \in SeqToSet(KnownOnly(seq))}

FamilyCascade(F) ==
    IF Cardinality(F) = 1 THEN [score |-> 100, compatible |-> TRUE]
    ELSE IF "NT" \in F /\ Cardinality(F) <= 2
    THEN [score |-> 85, compatible |-> TRUE]
    ELSE IF Cardinality(F) <= 3 THEN [score |-> 70, compatible |-> TRUE]
    ELSE [score |-> 40, compatible |-> FALSE]

\* C9: over the set F of distinct families of the known ids,
\* check_family_compatibility returns 1.0 when |F| = 1, else 0.85 when "NT"
\* is in F and |F| <= 2, else 0.70 when |F| <= 3, else 0.40 marked
\* incompatible; the first three are marked compatible.
C9_FamilyCascade ==
    (Checked /\ KnownOnly(sound_ids) # <<>>) =>
        /\ HasKey(checks.family, "score")
        /\ checks.family.score = FamilyCascade(KnownFamilies(sound_ids)).score
        /\ checks.family.compatible
             = FamilyCascade(KnownFamilies(sound_ids)).compatible

\* NT with two other families: the second rule does not apply, the third does
C9_Witness ==
    /\ Checked
    /\ "NT" \in KnownFamilies(sound_ids)
    /\ Cardinality(KnownFamilies(sound_ids)) = 3
    /\ HasKey(checks.family, "score") /\ checks.family.score = 70

\* the categories of the known ids of a list
KnownCategories(seq) ==
    {sound_profiles[id].category : id \in SeqToSet(KnownOnly(seq))}

Essential == {"Kicks", "Snares", "Cymbals and Hats"}

BalanceTable(C) ==
    IF Essential \subseteq C THEN [score |-> 100, balanced |-> TRUE]
    ELSE IF {"Kicks", "Snares"} \subseteq C
    THEN [score |-> 80, balanced |-> TRUE]
    ELSE IF C \cap Essential = {"Kicks"}
    THEN [score |-> 50, balanced |-> FALSE]
    ELSE [score |-> 30, balanced |-> FALSE]

\* C10: check_category_balance returns 1.0 (balanced) when the known ids
\* cover Kicks, Snares and Cymbals and Hats; 0.80 (balanced) for Kicks and
\* Snares without hats; 0.50 (unbalanced) when Kicks is the only one of the
\* three present; 0.30 (unbalanced) for every other set, a set with Kicks
\* and hats but no Snares included.
C10_BalanceTable ==
    (Checked /\ KnownOnly(sound_ids) # <<>>) =>
        /\ HasKey(checks.balance, "score")
        /\ checks.balance.score = BalanceTable(KnownCategories(sound_ids)).score
        /\ checks.balance.balanced
             = BalanceTable(KnownCategories(sound_ids)).balanced

\* the distinct timbres of the known ids of a list
KnownTimbres(seq) ==
    {sound_profiles[id].timbre : id \in SeqToSet(KnownOnly(seq))}

TimbreTable(T) ==
    IF Cardinality(T) = 1 THEN [score |-> 95, compatible |-> TRUE]
    ELSE IF T \cap {"balanced", "neutral"} # {}
    THEN [score |-> 90, compatible |-> TRUE]
    ELSE IF T \in {{"warm", "bright"}, {"warm", "dark"}}
    THEN [score |-> 85, compatible |-> TRUE]
    ELSE IF Cardinality(T) <= 2 THEN [score |-> 75, compatible |-> TRUE]
    ELSE [score |-> 50, compatible |-> FALSE]

\* the timbres _infer_timbre can return, and the lists of them the rules
\* are applied to below (the library's own sounds are warm, dark or
\* neutral only)
Timbres == {"warm", "bright", "dark", "neutral", "balanced"}
MaxTimbres == 3
TimbreLists == UNION {[1..n -> Timbres] : n \in 1..MaxTimbres}

\* the rules of check_timbre_compatibility on one list of timbres
TimbreRulesFollowTable(timbres) ==
    LET result == timbre_rules(timbres, SeqToSet(timbres),
                               PySetList(SeqToSet(timbres), hashseed))
    IN  /\ result.score = TimbreTable(SeqToSet(timbres)).score
        /\ result.compatible = TimbreTable(SeqToSet(timbres)).compatible

\* C11: over the set T of distinct timbres of the known ids,
\* check_timbre_compatibility returns 0.95 when |T| = 1; else 0.90 when
\* "balanced" or "neutral" is in T; else 0.85 when T is {warm, bright} or
\* {warm, dark}; else 0.75 when |T| <= 2; else 0.50 marked incompatible;
\* the first rule that applies wins.  Stated of every list of library ids
\* and, for the timbres no library sound has, of the rules themselves on
\* every list of timbres (the rules do not look at the ids passed, so they
\* are gone through once for each hash seed, where the empty list is
\* checked).
C11_TimbreTable ==
    /\ (Checked /\ KnownOnly(sound_ids) # <<>>) =>
          /\ HasKey(checks.timbre, "score")
          /\ checks.timbre.score = TimbreTable(KnownTimbres(sound_ids)).score
          /\ checks.timbre.compatible
               = TimbreTable(KnownTimbres(sound_ids)).compatible
    /\ (an_pc = "checked" /\ sound_ids = <<>>) =>
          \A timbres \in TimbreLists : TimbreRulesFollowTable(timbres)

\* three timbres, "neutral" among them: the second rule wins over the last
C11_Witness ==
    /\ Checked
    /\ Cardinality(KnownTimbres(sound_ids)) = 3
    /\ "neutral" \in KnownTimbres(sound_ids)
    /\ HasKey(checks.timbre, "score") /\ checks.timbre.score = 90

\* the kits in the order the claim gives them
KitOrder == << "Natural Kit", "Electronic Kit", "Hybrid Kit", "Heavy Kit" >>

\* the ids a kit lists under any of its categories
KitIds(kit_name) ==
    LET kit == CHOOSE i \in 1..Len(sound_kits) : sound_kits[i].name = kit_name
    IN  SeqToSet(kit_sounds_of(sound_kits[kit]))

\* |sound_ids /\ kit ids|, for the k-th kit of KitOrder
Overlap(seq, k) == Cardinality(SeqToSet(seq) \cap KitIds(KitOrder[k]))

BestOverlap(seq) ==
    CHOOSE n \in 0..Len(seq) :
        /\ \E k \in 1..Len(KitOrder) : Overlap(seq, k) = n
        /\ \A k \in 1..Len(KitOrder) : Overlap(seq, k) <= n

\* the kits whose ratio is the highest one
BestKits(seq) == {k \in 1..Len(KitOrder) : Overlap(seq, k) = BestOverlap(seq)}

\* the first kit with the highest ratio if that ratio, overlap / len, is
\* more than 3/10, and none otherwise
ExpectedKit(seq) ==
    IF seq # <<>> /\ 10 * BestOverlap(seq) > 3 * Len(seq)
    THEN KitOrder[CHOOSE k \in BestKits(seq) : \A j \in BestKits(seq) : k <= j]
    ELSE None

\* C12: find_matching_kit returns the kit with the highest ratio
\* |sound_ids /\ kit ids| / |sound_ids| (|sound_ids| being the length of the
\* list passed) when that ratio is strictly greater than 0.30 and none
\* otherwise, a ratio of exactly 3/10 included; of several kits with the
\* highest ratio it returns the first in the order Natural Kit, Electronic
\* Kit, Hybrid Kit, Heavy Kit.
C12_KitByHighestRatio ==
    an_pc = "done" => matching_kit = ExpectedKit(sound_ids)

\* several kits share the highest ratio, and it is above the threshold
C12_Witness ==
    /\ an_pc = "done"
    /\ Cardinality(BestKits(sound_ids)) >= 2
    /\ matching_kit # None
    /\ matching_kit # KitOrder[1]

\* every id some kit lists
AllKitIds == UNION {KitIds(KitOrder[k]) : k \in 1..Len(KitOrder)}

\* the full id list of the kit of that name
KitList(kit_name) ==
    LET kit == CHOOSE i \in 1..Len(sound_kits) : sound_kits[i].name = kit_name
    IN  kit_sounds_of(sound_kits[kit])

\* C13: find_matching_kit applied to the full id list of one of the four
\* curated kits returns that kit, and applied to a non-empty list that
\* shares no id with any kit it returns none.  (Every id of the library is
\* in some kit, so the lists without overlap are lists of unknown ids; for
\* these the loop over the kits is run as well as the function.)
C13_KitListsMatchThemselves ==
    an_pc = "done" =>
        /\ \A k \in 1..Len(KitOrder) :
              sound_ids = KitList(KitOrder[k]) => matching_kit = KitOrder[k]
        /\ (sound_ids # <<>> /\ SeqToSet(sound_ids) \cap AllKitIds = {}) =>
              /\ matching_kit = None
              /\ kit_result(kit_loop(sound_ids, 1,
                                     [match |-> None, score |-> FZero]))
                   = None

\* the Heavy Kit's list, most of which the Natural Kit, tried first, has too
C13_Witness ==
    /\ an_pc = "done"
    /\ sound_ids = KitList("Heavy Kit")
    /\ 2 * Overlap(sound_ids, 1) > Len(sound_ids)
    /\ matching_kit = "Heavy Kit"

\* the all-NT list of demo_compatibility_analysis
AllNT == <<2, 100, 200, 300>>

\* C15: for the all-NT sound ids {2, 100, 200, 300}, analyze_composition
\* gives family score 1.0 and the reason text of the report's family
\* analysis contains "excellent coherence".
C15_AllNTFamilyReason ==
    (Analyzed /\ sound_ids = AllNT) =>
        /\ ~Raised(analysis)
        /\ analysis.family_analysis.score = 100
        /\ Contains(analysis.family_analysis.reason, "excellent coherence")

\* C15 as stated: family score 1.0 and the report's verdict text contains
\* "excellent coherence".
C15_AllNTVerdict ==
    (Analyzed /\ sound_ids = AllNT) =>
        /\ ~Raised(analysis)
        /\ analysis.family_analysis.score = 100
        /\ Contains(analysis.verdict, "excellent coherence")

\* the report for the all-NT list: one family, NT, and the verdict of the
\* EXCELLENT band
C15_Witness ==
    /\ Analyzed /\ sound_ids = AllNT
    /\ ~Raised(analysis)
    /\ KnownFamilies(sound_ids) = {"NT"}
    /\ analysis.verdict = "These sounds will work very well together!"

(***************************************************************************)
(* One generator object called again and again in one interpreter (Spec)   *)
(***************************************************************************)
\* the states the random module may be in when the program starts (it is
\* seeded from the operating system at import)
RngStartStates == {977, 40321}
RngStarts == {[a |-> m, x |-> 977] : m \in Multipliers}

MaxBar == 2
BarNumbers == 1..MaxBar

\* the bars asked for of the one generator: the first bars and bar 16 of
\* the example program
CalledBars == BarNumbers \cup {16}

\* times of day whose seeds give each hat interval, percussion on and
\* off, a complexity of exactly 0.66, and a clock about to pass midnight
StartTimes ==
    {TimeOfDay(9, 41, 15), TimeOfDay(18, 30, 20), TimeOfDay(12, 0, 35),
     TimeOfDay(6, 15, 33), TimeOfDay(23, 59, 59)}

MaxTicks == 1
MaxOtherDraws == 1
MaxCalls == 2

Init ==
    /\ hashseed = 0
    /\ rng \in RngStarts
    /\ clock \in StartTimes
    /\ ticks = 0
    /\ draws = 0
    /\ calls = 0
    /\ current_composition = <<>>
    /\ returned = NotCalled
    /\ first_call = NotCalled
    /\ attributes = Attributes
    /\ AnalyzerIdle /\ RunsIdle /\ ThreadsIdle /\ OthersIdle

\* the composition without what generate_from_bar and generate_from_time
\* add to its metadata
WithoutExtra(composition) ==
    [composition EXCEPT
        !.metadata = [k \in DOMAIN @ \ {"bar_number", "time"} |-> @[k]]]

\* Return with current_composition a copy made by _generate_composition,
\* which the metadata added afterwards does not reach
Return_copy(op, bar_number, out) ==
    /\ rng' = out.rng
    /\ current_composition' =
          IF Raised(out.composition) THEN current_composition
          ELSE WithoutExtra(out.composition)
    /\ returned' = [op |-> op, bar_number |-> bar_number,
                    composition |-> out.composition,
                    calls_before |-> calls, draws_before |-> draws]
    /\ first_call' =
          IF calls = 0
          THEN [op |-> op, bar_number |-> bar_number,
                composition |-> out.composition]
          ELSE first_call
    /\ calls' = calls + 1

\* what a generate call leaves behind; out is the call's outcome
Return(op, bar_number, out) ==
    /\ rng' = out.rng
    /\ current_composition' =
          IF Raised(out.composition) THEN current_composition
          ELSE out.composition
    /\ returned' = [op |-> op, bar_number |-> bar_number,
                    composition |-> out.composition,
                    calls_before |-> calls, draws_before |-> draws]
    /\ first_call' =
          IF calls = 0
          THEN [op |-> op, bar_number |-> bar_number,
                composition |-> out.composition]
          ELSE first_call
    /\ calls' = calls + 1

GenerateFromBar ==
    /\ calls < MaxCalls
    /\ \E bar_number \in CalledBars :
          Return("generate_from_bar", bar_number,
                 generate_from_bar(rng, bar_number, isoformat(clock),
                                   hashseed))
    /\ UNCHANGED attributes
    /\ UNCHANGED <<hashseed, analyzer_vars, other_vars, clock, ticks, draws,
                   run, threads>>

\* the clock may pass a second between the read of generate_from_time and
\* the read of get_time_seed, and between that and the read of
\* _generate_composition
GenerateFromTime ==
    /\ calls < MaxCalls
    /\ \E d1, d2 \in 0..1 :
          /\ ticks + d1 + d2 <= MaxTicks
          /\ Return("generate_from_time", 0,
                    generate_from_time(rng, clock, After(clock, d1),
                                       isoformat(After(clock, d1 + d2)),
                                       hashseed))
          /\ clock' = After(clock, d1 + d2)
          /\ ticks' = ticks + d1 + d2
    /\ UNCHANGED attributes
    /\ UNCHANGED <<hashseed, analyzer_vars, other_vars, draws, run, threads>>

\* other code of the interpreter draws from the random module
OtherDraw ==
    /\ draws < MaxOtherDraws
    /\ rng' = Advance(rng)
    /\ draws' = draws + 1
    /\ UNCHANGED <<hashseed, analyzer_vars, other_vars, attributes, clock,
                   ticks, calls, current_composition, returned, first_call,
                   run, threads>>

Tick ==
    /\ ticks < MaxTicks
    /\ clock' = After(clock, 1)
    /\ ticks' = ticks + 1
    /\ UNCHANGED <<hashseed, analyzer_vars, other_vars, attributes, rng, draws,
                   calls, current_composition, returned, first_call, run,
                   threads>>

Next ==
    \/ GenerateFromBar
    \/ GenerateFromTime
    \/ OtherDraw
    \/ Tick

Spec == Init /\ [][Next]_vars

\* C2: whatever generate calls and other draws came before,
\* generate_from_bar(n) returns the four lane patterns it returned when it
\* was the first call.
C2_BarPatternsAsFirstCall ==
    (/\ returned # NotCalled
     /\ returned.op = "generate_from_bar"
     /\ first_call.op = "generate_from_bar"
     /\ first_call.bar_number = returned.bar_number) =>
        returned.composition.patterns = first_call.composition.patterns

\* a later generate_from_bar(n), entered after another generate call and
\* after other draws, n being the bar of the first call
C2_Witness ==
    /\ returned # NotCalled
    /\ returned.op = "generate_from_bar"
    /\ returned.calls_before >= 1
    /\ returned.draws_before >= 1
    /\ first_call.op = "generate_from_bar"
    /\ first_call.bar_number = returned.bar_number

(***************************************************************************)
(* Properties of the lanes of every composition a generate call returns    *)
(***************************************************************************)
Generated == returned # NotCalled /\ ~Raised(returned.composition)

\* a lane of the composition returned last
ReturnedLane(name) == returned.composition.patterns[name]

\* the events of a lane that are on step s
EventsAt(lane, s) == {i \in 1..Len(lane) : lane[i].step = s}

GridSteps == 0..(bars * beats_per_bar * subdivisions - 1)

\* the subdivision of a step within its beat, and its beat within its bar
Subdivision(s) == s % subdivisions
Beat(s) == (s \div subdivisions) % beats_per_bar

\* subdivision 0 of one of the beats
OnBeat(s, beats) == Subdivision(s) = 0 /\ Beat(s) \in beats

\* C16: every event of each of the four lanes has
\* 0 <= step < bars * beats_per_bar * subdivisions (64).
C16_StepsOnGrid ==
    Generated =>
        \A k \in 1..Len(LaneOrder) :
            \A i \in 1..Len(ReturnedLane(LaneOrder[k])) :
                ReturnedLane(LaneOrder[k])[i].step \in GridSteps

\* a composition with an event on the last step and with percussion
C16_Witness ==
    /\ Generated
    /\ EventsAt(ReturnedLane("hat"), 63) # {}
    /\ ReturnedLane("perc") # <<>>

\* C17: every event of every generated composition carries a sound_id of
\* the sound library.
C17_SoundIdsInLibrary ==
    Generated =>
        \A k \in 1..Len(LaneOrder) :
            \A i \in 1..Len(ReturnedLane(LaneOrder[k])) :
                ReturnedLane(LaneOrder[k])[i].sound_id \in LibraryIds

\* a composition with events in all four lanes, an open hat among them
C17_Witness ==
    /\ Generated
    /\ \A k \in 1..Len(LaneOrder) : ReturnedLane(LaneOrder[k]) # <<>>
    /\ \E i \in 1..Len(ReturnedLane("hat")) :
          ReturnedLane("hat")[i].sound_id = 218

\* the kick lane: one strong event on subdivision 0 of beats 0 and 2,
\* softer hits on subdivision 0 of beats 1 and 3, nothing elsewhere
KickLaneAsStated(lane) ==
    /\ \A s \in GridSteps :
          OnBeat(s, {0, 2}) =>
              /\ Cardinality(EventsAt(lane, s)) = 1
              /\ \A i \in EventsAt(lane, s) :
                    /\ lane[i].velocity \in 90..127
                    /\ lane[i].sound_id \in 1..5
    /\ \A i \in 1..Len(lane) :
          ~OnBeat(lane[i].step, {0, 2}) =>
              /\ lane[i].velocity \in 60..90
              /\ OnBeat(lane[i].step, {1, 3})
    /\ \A i \in 1..Len(lane) : Subdivision(lane[i].step) = 0

\* C18: in every generated kick lane there is exactly one strong event
\* (velocity 90..127, sound id 1..5) on each step that is subdivision 0 of
\* beat 0 or 2 of a bar; every other kick event is a softer hit (velocity
\* 60..90) on subdivision 0 of beat 1 or 3; no kick event is on a step whose
\* subdivision is not 0.
C18_KickLane == Generated => KickLaneAsStated(ReturnedLane("kick"))

\* a kick lane with a softer hit
C18_Witness ==
    /\ Generated
    /\ \E i \in 1..Len(ReturnedLane("kick")) :
          /\ OnBeat(ReturnedLane("kick")[i].step, {1, 3})
          /\ ReturnedLane("kick")[i].velocity < 90

\* the snare lane: one strong event on subdivision 0 of beats 1 and 3,
\* ghost notes on subdivision 2, nothing else
SnareLaneAsStated(lane) ==
    /\ \A s \in GridSteps :
          OnBeat(s, {1, 3}) =>
              /\ Cardinality(EventsAt(lane, s)) = 1
              /\ \A i \in EventsAt(lane, s) : lane[i].velocity \in 85..120
    /\ \A i \in 1..Len(lane) :
          ~OnBeat(lane[i].step, {1, 3}) =>
              /\ Subdivision(lane[i].step) = 2
              /\ lane[i].velocity \in 40..70
              /\ lane[i].sound_id = 100

\* C19: in every generated snare lane there is exactly one strong event
\* (velocity 85..120) on each step that is subdivision 0 of beat 1 or 3 of a
\* bar, and every other snare event is a ghost note on subdivision 2 with
\* velocity 40..70 and sound id 100.
C19_SnareLane == Generated => SnareLaneAsStated(ReturnedLane("snare"))

\* a snare lane with a ghost note
C19_Witness ==
    /\ Generated
    /\ \E i \in 1..Len(ReturnedLane("snare")) :
          Subdivision(ReturnedLane("snare")[i].step) = 2

\* the hat interval the claim gives a seed: complexity is (seed % 50) / 50,
\* compared with 0.33 and 0.66 exactly
StatedHatInterval(seed) ==
    IF 2 * (seed % 50) < 33 THEN subdivisions
    ELSE IF 2 * (seed % 50) < 66 THEN subdivisions \div 2
    ELSE 1

ClosedHat(event) ==
    /\ event.note = 42 /\ event.sound_id \in {200, 201}
    /\ event.velocity \in 70..100

OpenHat(event) ==
    /\ event.note = 46 /\ event.sound_id = 218
    /\ event.velocity \in 80..110

HatAccent(event) ==
    /\ event.note = 42 /\ event.sound_id \in {200, 201}
    /\ event.velocity \in 50..80

HatLaneAsStated(lane, interval) ==
    \A s \in GridSteps :
        IF s % interval = 0
        THEN /\ Cardinality(EventsAt(lane, s)) = 1
             /\ \A i \in EventsAt(lane, s) :
                   ClosedHat(lane[i]) \/ OpenHat(lane[i])
        ELSE /\ Cardinality(EventsAt(lane, s)) <= 1
             /\ \A i \in EventsAt(lane, s) : HatAccent(lane[i])

\* C20: the hat interval is subdivisions steps when complexity < 0.33, half
\* of that when complexity < 0.66 and 1 otherwise; every step that is a
\* multiple of the interval carries exactly one hat event, closed (note 42,
\* sound id 200 or 201, velocity 70..100) or open (note 46, sound id 218,
\* velocity 80..110); every hat event on another step is a closed accent
\* with velocity 50..80; no step carries more than one hat event.
C20_HatLane ==
    Generated =>
        HatLaneAsStated(ReturnedLane("hat"),
                        StatedHatInterval(returned.composition.metadata.seed))

\* a hat lane on the eighth-note interval with an open hat and an accent
C20_Witness ==
    /\ Generated
    /\ StatedHatInterval(returned.composition.metadata.seed) = 2
    /\ \E i \in 1..Len(ReturnedLane("hat")) :
          ReturnedLane("hat")[i].step % 2 = 1
    /\ \E i \in 1..Len(ReturnedLane("hat")) : OpenHat(ReturnedLane("hat")[i])

\* the state of the random module when the hat lane of the composition
\* of that seed is complete: the seed set, then the kick, the snare and the
\* hat lane drawn
AfterHatLane(seeded, seed) ==
    generate_hat_pattern(
        generate_snare_pattern(
            generate_kick_pattern(seeded, density_of(seed)).rng,
            density_of(seed)).rng,
        density_of(seed), complexity_of(seed)).rng

\* complexity, (seed % 50) / 50, is below 0.3
LowComplexity(seed) == 10 * (seed % 50) < 3 * 50

PercLaneAsStated(lane) ==
    /\ \A s \in GridSteps : Cardinality(EventsAt(lane, s)) <= 1
    /\ \A i \in 1..Len(lane) :
          /\ lane[i].note \in {39, 54, 56}
          /\ lane[i].sound_id \in {300, 301, 302}

\* C21: the percussion lane is empty whenever complexity < 0.3, and then
\* no draw is made for it (the random module is left as the hat lane left
\* it); otherwise each step has at most one percussion event, with note in
\* {39, 54, 56} and sound id in {300, 301, 302}.
C21_PercLane ==
    Generated =>
        IF LowComplexity(returned.composition.metadata.seed)
        THEN /\ ReturnedLane("perc") = <<>>
             /\ returned.draws_before = draws =>
                   rng = AfterHatLane(
                             seed_rng(rng, returned.composition.metadata.seed),
                             returned.composition.metadata.seed)
        ELSE PercLaneAsStated(ReturnedLane("perc"))

\* a composition of low complexity whose other lanes have drawn variations
C21_Witness ==
    /\ Generated
    /\ LowComplexity(returned.composition.metadata.seed)
    /\ returned.draws_before = draws
    /\ ReturnedLane("perc") = <<>>
    /\ Len(ReturnedLane("hat")) > 16

\* a composition with percussion
C21_WitnessPerc ==
    /\ Generated
    /\ ~LowComplexity(returned.composition.metadata.seed)
    /\ Len(ReturnedLane("perc")) >= 2

\* C22: for bar 16 (seed 16000), and for every bar number, the seed is a
\* multiple of 1000, so that density and complexity are 0 and the event
\* count is fixed whatever is drawn: the 8 strong kick hits, the 8 strong
\* snare hits, 16 hat events on the quarter notes and no percussion, 32
\* events in all, with no soft kick, no ghost snare and no hat accent.
C22_BarEventCount ==
    (Generated /\ returned.op = "generate_from_bar") =>
        /\ returned.composition.metadata.seed = returned.bar_number * 1000
        /\ returned.composition.metadata.density = 0
        /\ returned.composition.metadata.complexity = 0
        /\ Len(ReturnedLane("kick")) = 8
        /\ \A i \in 1..Len(ReturnedLane("kick")) :
              /\ OnBeat(ReturnedLane("kick")[i].step, {0, 2})
              /\ ReturnedLane("kick")[i].velocity \in 90..127
        /\ Len(ReturnedLane("snare")) = 8
        /\ \A i \in 1..Len(ReturnedLane("snare")) :
              /\ OnBeat(ReturnedLane("snare")[i].step, {1, 3})
              /\ ReturnedLane("snare")[i].velocity \in 85..120
        /\ Len(ReturnedLane("hat")) = 16
        /\ \A i \in 1..Len(ReturnedLane("hat")) :
              ReturnedLane("hat")[i].step % subdivisions = 0
        /\ ReturnedLane("perc") = <<>>
        /\ Len(ReturnedLane("kick")) + Len(ReturnedLane("snare"))
             + Len(ReturnedLane("hat")) + Len(ReturnedLane("perc")) = 32

\* bar 16 generated after other code has drawn from the random module
C22_Witness ==
    /\ Generated
    /\ returned.op = "generate_from_bar"
    /\ returned.bar_number = 16
    /\ returned.composition.metadata.seed = 16000
    /\ returned.draws_before > 0
    /\ Len(ReturnedLane("hat")) = 16

\* C23: after any sequence of generate_from_bar and generate_from_time
\* calls current_composition is the composition the most recent call
\* returned (the empty list before the first call), and the calls have
\* changed nothing else of the generator: bpm, bars, beats_per_bar,
\* subdivisions, the sound profiles and the kits are as __init__ left them.
C23_CurrentComposition ==
    /\ attributes = Attributes
    /\ returned = NotCalled => current_composition = <<>>
    /\ Generated => current_composition = returned.composition

\* a second call has returned a composition other than the first call's
C23_Witness ==
    /\ Generated
    /\ returned.calls_before = 1
    /\ ~Raised(first_call.composition)
    /\ first_call.composition.patterns # returned.composition.patterns
    /\ current_composition = returned.composition

\* the sound ids of a composition's events
UsedSoundIds(composition) ==
    SeqToSet(pattern_sound_ids(composition.patterns))

\* C26: every composition _generate_composition produces is analysed (its
\* compatibility is never the "No sounds in composition" result) and rated
\* EXCELLENT, with overall_score 0.99 when kick sound 1 (MICRO KICK) is
\* not used and 0.90 when it is, and its matching_kit is never None.
C26_CompositionsExcellent ==
    Generated =>
        /\ ~HasKey(returned.composition.compatibility, "analyzed")
        /\ returned.composition.compatibility.rating = "EXCELLENT"
        /\ returned.composition.compatibility.overall_score =
              IF 1 \in UsedSoundIds(returned.composition) THEN 90 ELSE 99
        /\ returned.composition.compatibility.matching_kit # None

\* a composition without the MICRO KICK, after one with it
C26_Witness ==
    /\ Generated
    /\ 1 \notin UsedSoundIds(returned.composition)
    /\ returned.composition.compatibility.overall_score = 99
    /\ ~Raised(first_call.composition)
    /\ 1 \in UsedSoundIds(first_call.composition)

\* the number two decimal digits of a string stand for
DigitOf(ch) == CHOOSE d \in 0..9 : ToString(d) = ch
TwoDigitNumber(str, i) ==
    10 * DigitOf(SubSeq(str, i, i)) + DigitOf(SubSeq(str, i + 1, i + 1))

\* HH*10000 + MM*100 + SS of a string "HH:MM:SS"
SeedOfTimeString(str) ==
    TwoDigitNumber(str, 1) * 10000 + TwoDigitNumber(str, 4) * 100
    + TwoDigitNumber(str, 7)

\* C27: in clock mode the seed stored in the composition metadata is the
\* seed of the time string stored with it, seed = HH*10000 + MM*100 + SS of
\* metadata['time'], also when the clock advances while generate_from_time
\* runs.
C27_SeedOfStoredTime ==
    (Generated /\ returned.op = "generate_from_time") =>
        returned.composition.metadata.seed =
            SeedOfTimeString(returned.composition.metadata.time)

(***************************************************************************)
(* The same composition generated in several runs of the program           *)
(* (SpecTwoRuns): a run is a fresh interpreter, with its own hash seed and *)
(* its own random module, that calls _generate_composition(seed, mode)     *)
(***************************************************************************)
MaxRuns == 2
RunSeeds == {1000, 94115, 120035, 235959}
Modes == {"bar", "clock"}

TwoRunsInit ==
    /\ hashseed \in HashSeeds
    /\ rng \in RngStarts
    /\ run \in {[seed |-> sd, mode |-> m, outputs |-> <<>>] :
                   sd \in RunSeeds, m \in Modes}
    /\ clock = TimeOfDay(9, 41, 15)
    /\ ticks = 0
    /\ draws = 0
    /\ calls = 0
    /\ current_composition = <<>>
    /\ returned = NotCalled
    /\ first_call = NotCalled
    /\ attributes = Attributes
    /\ AnalyzerIdle /\ ThreadsIdle /\ OthersIdle

\* what the run keeps of the call's outcome
Output(out) ==
    /\ rng' = out.rng
    /\ current_composition' = out.composition
    /\ run' = [run EXCEPT !.outputs =
                  Append(@, [hashseed |-> hashseed,
                             patterns |-> out.composition.patterns,
                             compatibility |->
                                 out.composition.compatibility])]

RunGenerateComposition ==
    /\ Len(run.outputs) < MaxRuns
    /\ Output(generate_composition(rng, run.seed, run.mode, isoformat(clock),
                                   hashseed))
    /\ UNCHANGED <<hashseed, analyzer_vars, other_vars, attributes, clock,
                   ticks, draws, calls, returned, first_call, threads>>

\* the program is started again
StartInterpreter ==
    /\ Len(run.outputs) < MaxRuns
    /\ hashseed' \in HashSeeds
    /\ rng' \in {[a |-> rng.a, x |-> x0] : x0 \in RngStartStates}
    /\ current_composition' = <<>>
    /\ UNCHANGED <<analyzer_vars, other_vars, attributes, clock, ticks, draws,
                   calls, returned, first_call, run, threads>>

TwoRunsNext ==
    \/ RunGenerateComposition
    \/ StartInterpreter

SpecTwoRuns == TwoRunsInit /\ [][TwoRunsNext]_vars

\* C1: for every seed and mode, two runs of _generate_composition(seed,
\* mode) return identical patterns and an identical compatibility report,
\* the order of the families and timbres lists and the text of every
\* sounds_used summary included.
C1_RunsIdentical ==
    \A i, j \in 1..Len(run.outputs) :
        /\ run.outputs[i].patterns = run.outputs[j].patterns
        /\ run.outputs[i].compatibility = run.outputs[j].compatibility

(***************************************************************************)
(* Two threads of one interpreter, each calling generate_from_bar on its   *)
(* own TimeBasedGenerator (SpecConc).  A thread may be switched out        *)
(* between any two of its draws; here it is switched between lanes.  The   *)
(* two threads are alike, so the first one's bar is fixed.                 *)
(***************************************************************************)
Threads == {1, 2}

\* a thread about to call generate_from_bar(bar_number) on a new object
NewThread(bar_number) ==
    [pc |-> "call", bar_number |-> bar_number, seed |-> 0,
     kick |-> <<>>, snare |-> <<>>, hat |-> <<>>, perc |-> <<>>,
     current_composition |-> <<>>, returned |-> NotCalled]

ConcInit ==
    /\ hashseed = 0
    /\ rng \in RngStarts
    /\ threads \in {th \in [Threads -> {NewThread(n) : n \in BarNumbers}] :
                       th[1].bar_number = 1}
    /\ clock = TimeOfDay(9, 41, 15)
    /\ ticks = 0
    /\ draws = 0
    /\ calls = 0
    /\ current_composition = <<>>
    /\ returned = NotCalled
    /\ first_call = NotCalled
    /\ attributes = Attributes
    /\ AnalyzerIdle /\ RunsIdle /\ OthersIdle

ConcUnchanged ==
    UNCHANGED <<hashseed, analyzer_vars, other_vars, attributes, clock, ticks,
                draws, calls, current_composition, returned, first_call, run>>

\* generate_from_bar up to its random.seed(seed)
ThreadCall(t) ==
    /\ threads[t].pc = "call"
    /\ rng' = seed_rng(rng, get_bar_seed(threads[t].bar_number))
    /\ threads' = [threads EXCEPT ![t].pc = "compose",
                       ![t].seed = get_bar_seed(threads[t].bar_number)]
    /\ ConcUnchanged

\* _generate_composition up to the lanes
ThreadCompose(t) ==
    /\ threads[t].pc = "compose"
    /\ rng' = seed_rng(rng, threads[t].seed)
    /\ threads' = [threads EXCEPT ![t].pc = "kick"]
    /\ ConcUnchanged

\* one lane: lane is what its generator returns from the shared state
ThreadLane(t, from, to, lane) ==
    /\ rng' = lane.rng
    /\ threads' = [threads EXCEPT ![t].pc = to, ![t][from] = lane.pattern]
    /\ ConcUnchanged

ThreadKick(t) ==
    /\ threads[t].pc = "kick"
    /\ ThreadLane(t, "kick", "snare",
                  generate_kick_pattern(rng, density_of(threads[t].seed)))

ThreadSnare(t) ==
    /\ threads[t].pc = "snare"
    /\ ThreadLane(t, "snare", "hat",
                  generate_snare_pattern(rng, density_of(threads[t].seed)))

ThreadHat(t) ==
    /\ threads[t].pc = "hat"
    /\ ThreadLane(t, "hat", "perc",
                  generate_hat_pattern(rng, density_of(threads[t].seed),
                                       complexity_of(threads[t].seed)))

ThreadPerc(t) ==
    /\ threads[t].pc = "perc"
    /\ ThreadLane(t, "perc", "finish",
                  generate_percussion_pattern(
                      rng, complexity_of(threads[t].seed)))

ThreadPatterns(t) ==
    [kick |-> threads[t].kick, snare |-> threads[t].snare,
     hat |-> threads[t].hat, perc |-> threads[t].perc]

ThreadReturn(t, out) ==
    threads' = [threads EXCEPT ![t].pc = "done",
                    ![t].current_composition = out.composition,
                    ![t].returned = out.composition]

\* the rest of _generate_composition and of generate_from_bar
ThreadFinish(t) ==
    /\ threads[t].pc = "finish"
    /\ ThreadReturn(t,
          with_metadata(
              finish_composition(threads[t].seed, "bar", isoformat(clock),
                                 [patterns |-> ThreadPatterns(t),
                                  rng |-> rng],
                                 hashseed),
              [bar_number |-> threads[t].bar_number]))
    /\ UNCHANGED rng
    /\ ConcUnchanged

ConcNext ==
    \E t \in Threads :
        \/ ThreadCall(t)
        \/ ThreadCompose(t)
        \/ ThreadKick(t)
        \/ ThreadSnare(t)
        \/ ThreadHat(t)
        \/ ThreadPerc(t)
        \/ ThreadFinish(t)

SpecConc == ConcInit /\ [][ConcNext]_vars

\* C3: under every interleaving of two concurrent generate calls, each on
\* its own TimeBasedGenerator, each call returns exactly the patterns it
\* returns when it runs alone with the same seed.
C3_ConcurrentCallsAsAlone ==
    \A t \in Threads :
        threads[t].pc = "done" =>
            threads[t].returned.patterns =
                generate_from_bar(rng, threads[t].bar_number,
                                  isoformat(clock),
                                  hashseed).composition.patterns

(***************************************************************************)
(* get_time_seed and get_bar_seed called on one generator (SpecSeeds):     *)
(* the clock moves on before a call, past the end of a minute, of an hour  *)
(* or of the day                                                           *)
(***************************************************************************)
SeedClocks ==
    {TimeOfDay(0, 0, 0), TimeOfDay(0, 0, 59), TimeOfDay(0, 59, 59),
     TimeOfDay(9, 41, 15), TimeOfDay(9, 59, 59), TimeOfDay(12, 0, 0),
     TimeOfDay(23, 59, 58)}

\* how many seconds pass before a call
Waits == {0, 1, 60, 61, 3600, 43200}

\* the bar numbers passed: the first few and a large one
SeedBars == (0..MaxBar) \cup {12345}

SeedsInit ==
    /\ clock \in SeedClocks
    /\ hashseed = 0
    /\ rng = [a |-> 1, x |-> 0]
    /\ ticks = 0
    /\ draws = 0
    /\ calls = 0
    /\ current_composition = <<>>
    /\ returned = NotCalled
    /\ first_call = NotCalled
    /\ attributes = Attributes
    /\ AnalyzerIdle /\ RunsIdle /\ ThreadsIdle /\ OthersIdle

\* what a call that returns a seed leaves behind; arg is the clock it read
\* or the bar number it was passed
SeedReturn(op, arg, seed) ==
    /\ returned' = [op |-> op, arg |-> arg, seed |-> seed]
    /\ first_call' = IF calls = 0 THEN [op |-> op, arg |-> arg, seed |-> seed]
                     ELSE first_call
    /\ calls' = calls + 1

CallGetTimeSeed ==
    /\ calls < MaxCalls
    /\ \E wait \in Waits :
          /\ clock' = After(clock, wait)
          /\ ticks' = ticks + wait
          /\ SeedReturn("get_time_seed", After(clock, wait),
                        get_time_seed(After(clock, wait)))
    /\ UNCHANGED <<hashseed, analyzer_vars, other_vars, attributes, rng, draws,
                   current_composition, run, threads>>

CallGetBarSeed ==
    /\ calls < MaxCalls
    /\ \E bar_number \in SeedBars :
          SeedReturn("get_bar_seed", bar_number, get_bar_seed(bar_number))
    /\ UNCHANGED <<hashseed, analyzer_vars, other_vars, attributes, rng, clock,
                   ticks, draws, current_composition, run, threads>>

SeedsNext ==
    \/ CallGetTimeSeed
    \/ CallGetBarSeed

SpecSeeds == SeedsInit /\ [][SeedsNext]_vars

\* C14: get_bar_seed(n) is n*1000 for every n >= 0, and of two clock
\* readings of one day, (h1, m1, s1) <= (h2, m2, s2), the later one's seed
\* hour*10000 + minute*100 + second is not the smaller one.
C14_SeedsOfBarsAndClock ==
    returned # NotCalled =>
        /\ returned.op = "get_bar_seed" =>
              /\ returned.seed % 1000 = 0
              /\ returned.seed \div 1000 = returned.arg
        /\ (/\ returned.op = "get_time_seed"
            /\ first_call.op = "get_time_seed"
            /\ first_call.arg <= returned.arg) =>
              first_call.seed <= returned.seed

\* two readings with the end of an hour between them: the later one has
\* the smaller minute and second
C14_Witness ==
    /\ returned # NotCalled
    /\ returned.op = "get_time_seed" /\ first_call.op = "get_time_seed"
    /\ first_call.arg < returned.arg
    /\ hour(first_call.arg) < hour(returned.arg)
    /\ minute(first_call.arg) > minute(returned.arg)
    /\ second(first_call.arg) > second(returned.arg)

(***************************************************************************)
(* export_to_sampler (SpecExport): the generator is asked for bars, as in  *)
(* the menu of main(), and then to export; the export connects, plays the  *)
(* timeline event by event and disconnects.  The device is the             *)
(* environment: the output names mido reports, whether the port opens,     *)
(* whether a send to the open port succeeds.                               *)
(***************************************************************************)
\* MIDIInterface.connect(port_index=0); opens: mido.open_output succeeds
connect(interface, names, opens) ==
    IF names = <<>> \/ ~opens
    THEN [interface |-> interface, result |-> FALSE]
    ELSE [interface |-> [port |-> names[1], connected |-> TRUE],
          result |-> TRUE]

disconnect(interface) ==
    IF interface.port # None THEN [port |-> None, connected |-> FALSE]
    ELSE interface

\* what play_note returns; sends: both messages pass the port
play_note(interface, sends) == interface.connected /\ sends

\* the events of the lanes, lane after lane
merged_timeline(patterns) ==
    ConcatAll([i \in 1..Len(LaneOrder) |-> patterns[LaneOrder[i]]])

\* the timeline left as merged
sort_by_step_omitted(timeline) == timeline

\* timeline.sort(key=step): a stable sort
sort_by_step(timeline) ==
    LET keys == SortedInts({timeline[i].step : i \in 1..Len(timeline)})
    IN  ConcatAll([k \in 1..Len(keys) |->
                     SelectSeq(timeline, LAMBDA e : e.step = keys[k])])

\* Python's "not composition"
Falsy(composition) == DOMAIN composition = {}

\* a composition whose lanes are empty, passed by a caller
EmptyLanes ==
    [metadata |-> [bpm |-> bpm],
     patterns |-> [name \in SeqToSet(LaneOrder) |-> <<>>]]

OutputNames == {<<>>, << "EP-133" >>, << "IAC Driver Bus 1", "EP-133" >>}

MaxSendFailures == 1

\* how many compositions are generated before the export
MaxGenerated == 1

ExportInit ==
    /\ hashseed = 0
    /\ rng = [a |-> 25173, x |-> 977]
    /\ clock = TimeOfDay(9, 41, 15)
    /\ ticks = 0
    /\ draws = 0
    /\ calls = 0
    /\ current_composition = <<>>
    /\ returned = NotCalled
    /\ first_call = NotCalled
    /\ attributes = Attributes
    /\ midi_interface = MIDIInterface
    /\ export = NotCalled
    /\ played = <<>>
    /\ send_failures = 0
    /\ output_names \in OutputNames
    /\ monitor = NotCalled
    /\ callbacks = <<>>
    /\ AnalyzerIdle /\ RunsIdle /\ ThreadsIdle /\ WebIdle

ExportUnchanged ==
    UNCHANGED <<hashseed, analyzer_vars, generator_vars, run, threads,
                web_vars, usb_vars>>

\* export_to_sampler up to the loop of _play_composition: the call
\* returns False without having tried to connect, or goes on to play the
\* sorted timeline.  connect never raises (its body is in a bare
\* try/except) and what it returns is not looked at; tried and connected
\* record it.
export_to_sampler(composition, interface, names, opens) ==
    IF Falsy(composition) \/ names = <<>>
    THEN [export |->
             [pc |-> "returned", result |-> FALSE, tried |-> FALSE,
              connected |-> FALSE, composition |-> composition,
              timeline |-> <<>>, position |-> 1],
          interface |-> interface]
    ELSE [export |->
             [pc |-> "playing", result |-> FALSE, tried |-> TRUE,
              connected |-> connect(interface, names, opens).result,
              composition |-> composition,
              timeline |->
                  sort_by_step(merged_timeline(composition.patterns)),
              position |-> 1],
          interface |-> connect(interface, names, opens).interface]

\* what a caller passes: nothing, an empty composition, one of empty lanes
ExportArguments == {"None", "{}", "EmptyLanes"}

ExportToSampler ==
    /\ export = NotCalled
    /\ \E argument \in ExportArguments, opens \in BOOLEAN :
          LET out == export_to_sampler(
                         CASE argument = "None" -> current_composition
                           [] argument = "{}" -> <<>>
                           [] argument = "EmptyLanes" -> EmptyLanes,
                         midi_interface, output_names, opens)
          IN  /\ export' = out.export
              /\ midi_interface' = out.interface
    /\ UNCHANGED <<played, send_failures>>
    /\ ExportUnchanged

\* one pass of the loop of _play_composition: the note is played and what
\* play_note returns is dropped
PlayEvent ==
    /\ export # NotCalled
    /\ export.pc = "playing"
    /\ export.position <= Len(export.timeline)
    /\ \E sends \in BOOLEAN :
          /\ ~sends => midi_interface.connected
          /\ ~sends => send_failures < MaxSendFailures
          /\ played' =
                Append(played,
                       [event |-> export.timeline[export.position],
                        returned |-> play_note(midi_interface, sends)])
          /\ send_failures' = IF sends THEN send_failures
                              ELSE send_failures + 1
    /\ export' = [export EXCEPT !.position = @ + 1]
    /\ UNCHANGED midi_interface
    /\ ExportUnchanged

\* the timeline is through (or was empty): disconnect and return True
FinishExport ==
    /\ export # NotCalled
    /\ export.pc = "playing"
    /\ export.position > Len(export.timeline)
    /\ midi_interface' = disconnect(midi_interface)
    /\ export' = [export EXCEPT !.pc = "returned", !.result = TRUE]
    /\ UNCHANGED <<played, send_failures>>
    /\ ExportUnchanged

\* the menu of main(): a composition is generated before the export
ExportNext ==
    \/ export = NotCalled /\ calls < MaxGenerated /\ GenerateFromBar
    \/ export = NotCalled /\ calls < MaxGenerated /\ GenerateFromTime
    \/ ExportToSampler
    \/ PlayEvent
    \/ FinishExport

SpecExport == ExportInit /\ [][ExportNext]_vars

\* how often an event is among the events or calls of a sequence
TimesIn(seq, e) == Cardinality({i \in 1..Len(seq) : seq[i] = e})

PlayedEvents == [i \in 1..Len(played) |-> played[i].event]

\* C24: _play_composition calls the note player exactly once for each
\* event of the four lanes, in non-decreasing step order, and a play_note
\* call that returns false does not end the sequence: when the export
\* returns, every event has been played.
C24_EveryEventPlayedInOrder ==
    /\ \A i \in 1..(Len(played) - 1) :
          played[i].event.step <= played[i + 1].event.step
    /\ (export # NotCalled /\ export.pc = "playing") =>
          \A e \in SeqToSet(merged_timeline(export.composition.patterns)) :
              TimesIn(PlayedEvents, e)
                <= TimesIn(merged_timeline(export.composition.patterns), e)
    /\ (export # NotCalled /\ export.pc = "returned" /\ export.result = TRUE)
          =>
          /\ Len(played)
               = Len(merged_timeline(export.composition.patterns))
          /\ \A e \in SeqToSet(merged_timeline(export.composition.patterns)) :
              TimesIn(PlayedEvents, e)
                = TimesIn(merged_timeline(export.composition.patterns), e)

\* an export that has returned after a play_note call failed before the
\* last event of the timeline
C24_Witness ==
    /\ export # NotCalled
    /\ export.pc = "returned" /\ export.result = TRUE
    /\ export.connected
    /\ Len(played) >= 32
    /\ played[Len(played)].returned
    /\ \E i \in 1..(Len(played) - 1) : ~played[i].returned

\* C25: export_to_sampler returns False, without playing any event, when
\* there is no composition, when no MIDI port is found and when connecting
\* to the device fails; otherwise it returns True.
C25_ExportResult ==
    (export # NotCalled /\ export.pc = "returned") =>
        IF \/ Falsy(export.composition)
           \/ output_names = <<>>
           \/ export.tried /\ ~export.connected
        THEN export.result = FALSE /\ played = <<>>
        ELSE export.result = TRUE

(***************************************************************************)
(* The web interface's pattern playback (SpecWeb, SpecWebFair).  Requests  *)
(* are handled one at a time; each playback thread runs at its own pace,   *)
(* and is switched in and out between any two of its accesses to the       *)
(* global is_playing.  A pattern is carried by its number of steps.        *)
(***************************************************************************)
PatternLengths == {0, 2}
MaxRequests == 3

WebInit ==
    /\ hashseed = 0
    /\ connected = FALSE
    /\ is_playing = FALSE
    /\ players = <<>>
    /\ requests = 0
    /\ AnalyzerIdle /\ GeneratorIdle /\ RunsIdle /\ ThreadsIdle
    /\ ExportIdle /\ UsbIdle

WebUnchanged ==
    UNCHANGED <<hashseed, analyzer_vars, generator_vars, run, threads,
                export_vars, usb_vars>>

\* POST /api/midi/connect: connected becomes what connect_to_device returns
Connect ==
    /\ \E success \in BOOLEAN : connected' = success
    /\ UNCHANGED <<is_playing, players, requests>>
    /\ WebUnchanged

\* the play_pattern request: refused when not connected or when is_playing
\* is set, else a thread is started; the thread has not run yet
HandlePlayPattern ==
    /\ requests < MaxRequests
    /\ requests' = requests + 1
    /\ \E total_steps \in PatternLengths, loop \in BOOLEAN :
          players' =
              IF ~connected \/ is_playing THEN players
              ELSE Append(players,
                          [pc |-> "start", total_steps |-> total_steps,
                           loop |-> loop, step_idx |-> 0,
                           stop_requested |-> FALSE])
    /\ UNCHANGED <<connected, is_playing>>
    /\ WebUnchanged

\* the stop_pattern request; stop_requested notes, for each thread started
\* and not finished, that a stop has been asked for since
HandleStopPattern ==
    /\ requests < MaxRequests
    /\ requests' = requests + 1
    /\ is_playing' = FALSE
    /\ players' =
          [t \in 1..Len(players) |->
              IF players[t].pc = "done" THEN players[t]
              ELSE [players[t] EXCEPT !.stop_requested = TRUE]]
    /\ UNCHANGED connected
    /\ WebUnchanged

\* one step of play_pattern_thread from one access of is_playing to the
\* next: the thread's locals and the global afterwards
play_pattern_thread(player, playing) ==
    CASE player.pc = "start" ->
            [player |-> [player EXCEPT !.pc = "while"], is_playing |-> TRUE]
      [] player.pc = "while" ->
            [player |-> [player EXCEPT
                            !.pc = IF playing THEN "for" ELSE "finally",
                            !.step_idx = 0],
             is_playing |-> playing]
      [] player.pc = "for" ->
            [player |-> [player EXCEPT
                            !.pc = IF player.step_idx < player.total_steps
                                      /\ playing
                                   THEN "step"
                                   ELSE IF player.loop THEN "while"
                                   ELSE "finally"],
             is_playing |-> playing]
      [] player.pc = "step" ->
            [player |-> [player EXCEPT !.pc = "for", !.step_idx = @ + 1],
             is_playing |-> playing]
      [] player.pc = "finally" ->
            [player |-> [player EXCEPT !.pc = "done"], is_playing |-> FALSE]

PlayPatternThread(t) ==
    /\ t <= Len(players)
    /\ players[t].pc # "done"
    /\ players' =
          [players EXCEPT ![t] = play_pattern_thread(@, is_playing).player]
    /\ is_playing' = play_pattern_thread(players[t], is_playing).is_playing
    /\ UNCHANGED <<connected, requests>>
    /\ WebUnchanged

WebNext ==
    \/ Connect
    \/ HandlePlayPattern
    \/ HandleStopPattern
    \/ \E t \in 1..MaxRequests : PlayPatternThread(t)

SpecWeb == WebInit /\ [][WebNext]_vars

\* every started thread is scheduled again and again
SpecWebFair ==
    SpecWeb /\ \A t \in 1..MaxRequests : WF_vars(PlayPatternThread(t))

Running == {t \in 1..Len(players) : players[t].pc # "done"}

\* C28: at most one pattern playback thread runs at any time: a
\* play_pattern request that arrives while a playback has been started and
\* has not finished starts no second thread.
C28_OnePlaybackThread == Cardinality(Running) <= 1

\* C29: after a stop_pattern request every playback thread that was
\* started before the request eventually terminates.
C29_StoppedThreadsTerminate ==
    \A t \in 1..MaxRequests :
        (t <= Len(players) /\ players[t].stop_requested)
            ~> (t <= Len(players) /\ players[t].pc = "done")

(***************************************************************************)
(* The USB monitor (SpecUsb): check_connection called again and again, as  *)
(* monitor_loop does, while the MIDI ports of the machine come and go.     *)
(* monitor.found is the history of the calls: whether each of them found   *)
(* a device port.                                                          *)
(***************************************************************************)
DEVICE_IDENTIFIERS == << "EP-133", "KO II", "Teenage" >>

\* the first output name with one of the identifiers in it, or None; a
\* failure of the scan gives None too
find_device_port(names, scan_fails) ==
    IF scan_fails
       \/ \A i \in 1..Len(names) :
             \A k \in 1..Len(DEVICE_IDENTIFIERS) :
                 ~Contains(names[i], DEVICE_IDENTIFIERS[k])
    THEN None
    ELSE names[CHOOSE i \in 1..Len(names) :
                 /\ \E k \in 1..Len(DEVICE_IDENTIFIERS) :
                       Contains(names[i], DEVICE_IDENTIFIERS[k])
                 /\ \A j \in 1..(i - 1) :
                       \A k \in 1..Len(DEVICE_IDENTIFIERS) :
                           ~Contains(names[j], DEVICE_IDENTIFIERS[k])]

\* check_connection with connected_port assigned after the callback has
\* returned, and not when it raises
check_connection_late(mon, port, raises) ==
    IF port # None /\ ~mon.is_connected
    THEN [monitor |-> [mon EXCEPT !.is_connected = TRUE,
                                  !.connected_port =
                                      IF raises THEN @ ELSE port],
          invoked |-> << [callback |-> "on_connect", port |-> port,
                          raised |-> raises] >>,
          result |-> TRUE]
    ELSE IF port = None /\ mon.is_connected
    THEN [monitor |-> [mon EXCEPT !.is_connected = FALSE,
                                  !.connected_port = None],
          invoked |-> << [callback |-> "on_disconnect",
                          port |-> mon.connected_port,
                          raised |-> raises] >>,
          result |-> FALSE]
    ELSE [monitor |-> mon, invoked |-> <<>>, result |-> mon.is_connected]

\* check_connection: the monitor afterwards, the callback invoked (with
\* its argument, and whether it raised) and the value returned.  Both
\* fields are assigned before the callback is called, and an exception of
\* the callback is caught.
check_connection(mon, port, raises) ==
    IF port # None /\ ~mon.is_connected
    THEN [monitor |-> [mon EXCEPT !.is_connected = TRUE,
                                  !.connected_port = port],
          invoked |-> << [callback |-> "on_connect", port |-> port,
                          raised |-> raises] >>,
          result |-> TRUE]
    ELSE IF port = None /\ mon.is_connected
    THEN [monitor |-> [mon EXCEPT !.is_connected = FALSE,
                                  !.connected_port = None],
          invoked |-> << [callback |-> "on_disconnect",
                          port |-> mon.connected_port,
                          raised |-> raises] >>,
          result |-> FALSE]
    ELSE [monitor |-> mon, invoked |-> <<>>, result |-> mon.is_connected]

is_device_connected(mon) == mon.is_connected /\ mon.connected_port # None

UsbOutputNames ==
    {<<>>, << "IAC Driver Bus 1" >>, << "IAC Driver Bus 1", "EP-133" >>,
     << "KO II MIDI 1", "EP-133" >>}

MaxChecks == 5

UsbInit ==
    /\ hashseed = 0
    /\ monitor = [is_connected |-> FALSE, connected_port |-> None,
                  found |-> <<>>]
    /\ output_names \in UsbOutputNames
    /\ callbacks = <<>>
    /\ AnalyzerIdle /\ GeneratorIdle /\ RunsIdle /\ ThreadsIdle
    /\ ExportIdle /\ WebIdle

UsbUnchanged ==
    UNCHANGED <<hashseed, analyzer_vars, generator_vars, run, threads,
                export_vars, web_vars>>

\* a device is plugged in or pulled out
PortsChange ==
    /\ \E names \in UsbOutputNames \ {output_names} : output_names' = names
    /\ UNCHANGED <<monitor, callbacks>>
    /\ UsbUnchanged

CheckConnection ==
    /\ Len(monitor.found) < MaxChecks
    /\ \E scan_fails \in BOOLEAN, raises \in BOOLEAN :
          LET port == find_device_port(output_names, scan_fails)
              out == check_connection(monitor, port, raises)
          IN  /\ raises => out.invoked # <<>>
              /\ monitor' = [out.monitor EXCEPT
                                !.found = Append(@, port # None)]
              /\ callbacks' = callbacks \o out.invoked
    /\ UNCHANGED output_names
    /\ UsbUnchanged

UsbNext ==
    \/ PortsChange
    \/ CheckConnection

SpecUsb == UsbInit /\ [][UsbNext]_vars

\* the calls that found the port after a call that did not (or as the
\* first call), and those that found none after a call that found one
Appeared ==
    {i \in 1..Len(monitor.found) :
        monitor.found[i] /\ (i = 1 \/ ~monitor.found[i - 1])}
Vanished ==
    {i \in 2..Len(monitor.found) :
        ~monitor.found[i] /\ monitor.found[i - 1]}

CallbacksOf(name) ==
    {i \in 1..Len(callbacks) : callbacks[i].callback = name}

\* C30: over any sequence of check_connection calls on_connect and
\* on_disconnect are invoked strictly alternately, starting with
\* on_connect: one on_connect for each change of the device port from
\* absent to present, one on_disconnect for each change from present to
\* absent, none otherwise; and after every call is_connected is true
\* exactly when connected_port is set, also when a callback raises.
C30_CallbacksAlternate ==
    /\ \A i \in 1..Len(callbacks) :
          callbacks[i].callback =
              IF i % 2 = 1 THEN "on_connect" ELSE "on_disconnect"
    /\ Cardinality(CallbacksOf("on_connect")) = Cardinality(Appeared)
    /\ Cardinality(CallbacksOf("on_disconnect")) = Cardinality(Vanished)
    /\ monitor.is_connected <=> monitor.connected_port # None
    /\ is_device_connected(monitor) <=> monitor.is_connected

\* the device has come, gone and come again, and a callback has raised
C30_Witness ==
    /\ Len(callbacks) >= 3
    /\ \E i \in 1..Len(callbacks) : callbacks[i].raised
    /\ monitor.is_connected
    /\ Len(monitor.found) > Len(callbacks)

=============================================================================
